---- MODULE Spec2Model ----
(***************************************************************************)
(* AioGenConveyor (aioconveyor/aioconveyor2.py): a timed producer/consumer *)
(* conveyor.  A caller thread starts a worker thread; the worker runs one  *)
(* asyncio loop with three tasks (production_scheduler, consumer_loop,     *)
(* watchdog) joined by launcher.                                           *)
(*                                                                         *)
(* Time is counted in units of 100 ms.  wall is what time() returns; the   *)
(* timers of asyncio.sleep count down on the loop's own clock, so a step   *)
(* of the wall clock (ClockAdjust) moves wall and leaves the timers alone. *)
(* Inside the worker exactly one task runs at a time and a task that can   *)
(* run does so before time advances (Tick); producer and consumer calls    *)
(* are opaque coroutines that may take any time, return or raise.          *)
(*                                                                         *)
(* Spec is the life of an instance that is started once, RestartSpec adds  *)
(* further calls of start(), and ClockSpec is loop_time on its own, for    *)
(* any schedule and any clock.  PaiiSpec is the conveyor with the callables *)
(* of paii/paii_poll.py in place of the opaque ones, and LegacySpec is the *)
(* main loop of the older poller, scripts/paii_poll.py.                    *)
(***************************************************************************)
EXTENDS Integers, Sequences, FiniteSets, TLC

VARIABLES
    running,        \* self.running
    stopped,        \* self.stopped
    loop_interval,  \* self.loop_interval
    loop_offset,    \* self.loop_offset
    callerPc,       \* caller thread: "created", "starting", "started"
    nstart,         \* history: calls of start() so far
    launcherPc,     \* worker thread: "none", "ready", "gather", "done"
    wall,           \* time()
    prodPc,         \* producer task position
    t_event,        \* event_generator: t_event
    loop_counter,   \* event_generator: loop_counter
    event,          \* event_generator: event
    prodTimer,      \* remaining time of the producer task's asyncio.sleep
    queue,          \* launcher: queue
    consPc,         \* consumer_loop position: "none", "get", "gather", "raised"
    item,           \* consumer_loop: (event, payload) last dequeued
    cons_tasks,     \* consumer_loop: cons_tasks
    doneOrder,      \* consumers of the current item in the order they returned
    results,        \* consumer_loop: results
    wdPc,           \* watchdog position: "none", "sleep", "raised"
    wdTimer,        \* remaining time of the watchdog's asyncio.sleep
    emitted,        \* history: events yielded by event_generator
    enqueued,       \* history: items put on the queue
    dequeued,       \* history: items taken from the queue
    ninvoked,       \* history: calls made to each consumer
    skipped,        \* history: the ticks skipped by event_generator
    waiting,        \* history: most items found in the queue by a get
    prodFailedAt,   \* history: loop_counter of the event the producer raised on
    consFailedAt,   \* history: number of items dequeued when a consumer first raised
    stopAge,        \* history: time since stop() was called on a started conveyor
    nadjust,        \* history: steps of the wall clock so far
    exceptions,     \* history: the calls and stages that raised in this run
    ex,             \* launcher: the exception its gather raises
    log,            \* history: the exceptions launcher has reported
    ticks,          \* history: results of successive loop_time calls
    requested,      \* history: time() at the request for the event yet to be created, or -1
    args,           \* the arguments of the helper function under study
    ret,            \* what that function returned, or the exception it raised
    calls,          \* history: the calls made to it so far
    client,         \* MqttConsumer: self.client, and the event it was made for
    now,            \* legacy poller: time()
    mainPc,         \* legacy poller: position of main
    drain,          \* main: drain
    msg,            \* main: msg
    dt_next,        \* main: dt_next
    task_next,      \* main: task_next, the scheduled run of device_reader
    input_queue,    \* main: input_queue
    result_queue,   \* main: result_queue
    inserted,       \* history: the records inserted
    scheduled,      \* history: the time each poll was scheduled for
    nsignal         \* history: signals handled so far

callerVars == <<callerPc, nstart>>
flagVars == <<running, stopped>>
configVars == <<loop_interval, loop_offset>>
prodVars == <<prodPc, t_event, loop_counter, event, prodTimer>>
consVars == <<consPc, item, cons_tasks, doneOrder, results>>
wdVars == <<wdPc, wdTimer>>
histVars == <<emitted, enqueued, dequeued, ninvoked, skipped, waiting,
              prodFailedAt, consFailedAt>>
errVars == <<exceptions, ex, log>>
pollerVars == <<now, mainPc, drain, msg, dt_next, task_next, input_queue,
                result_queue, inserted, scheduled, nsignal>>
utilVars == <<args, ret, calls, client, pollerVars>>
conveyorVars == <<running, stopped, loop_interval, loop_offset, callerPc,
                  launcherPc, wall, prodPc, t_event, loop_counter, event,
                  prodTimer, queue, consPc, item, cons_tasks, doneOrder,
                  results, wdPc, wdTimer, emitted, enqueued, dequeued,
                  ninvoked, skipped, waiting, prodFailedAt, consFailedAt,
                  stopAge, nadjust, nstart, exceptions, ex, log, ticks,
                  requested>>
vars == <<conveyorVars, utilVars>>

\* ---- bounds of the model -------------------------------------------------
MaxTime == 15
MaxAdjust == 1
MaxStep == 2
MaxInterval == 5
NumConsumers == 2
MaxStarts == 2
MaxNow == 104
MaxCalls == 3
MaxDownsample == 5
MaxEvents == 16
MaxFields == 3
MaxWindow == 2
MaxMqDownsample == 2
MaxSignals == 2
MaxPolls == 4

\* ---- program constants (in units of 100 ms) ------------------------------
WatchdogInterval == 15
GraceSleep == 2

Intervals == {MaxInterval}
Consumers == 1..NumConsumers

\* The injected callables.  The payload the producer returns names the event
\* it was produced for, and the c-th registered consumer returns the code c,
\* so that a payload or a result shows which call it came from.
PayloadOf(e) == 100 + e.loop_counter
ResultOf(c, e, payload) == c
Offsets == {0}
AdjustSteps == {0 - MaxStep, MaxStep}
Nows == (0 - MaxNow)..MaxNow

\* stop() is called on a running pipeline at these points of the watchdog's
\* sleep: as it begins, half way, and as it ends.
StopPhases == {WatchdogInterval, WatchdogInterval \div 2, 0}

NoEvent == [event_time |-> -1, loop_counter |-> -1]
NoItem == [event |-> NoEvent, payload |-> 0]
NoTask == [st |-> "none", event |-> NoEvent, payload |-> 0, res |-> -1]
NoException == [stage |-> "none", call |-> 0]
NoArgs == [fn |-> "none"]
NoReturn == [kind |-> "none"]
NoClient == [state |-> "none", loop_counter |-> -1]
NoDatetime == [t |-> -1, tzinfo |-> "None"]
NoMsg == [msg_type |-> "none"]
NoRun == [poll |-> 0, when |-> NoDatetime, st |-> "none", dargs |-> <<>>]

\* ---- Clock ---------------------------------------------------------------
\* faulty variant: a tick equal to t_now is taken as still to come
loop_time_NotStrict(interval, offset, t_now) ==
    LET t0 == (t_now \div interval) * interval + offset
    IN  IF t0 < t_now THEN t0 + interval ELSE t0

\* faulty variant: the interval is added whether or not t0 is already ahead
loop_time_NextButOne(interval, offset, t_now) ==
    (t_now \div interval) * interval + offset + interval

\* faulty variant: the tick is taken relative to t_now, not from the grid
loop_time_Relative(interval, offset, t_now) == t_now + interval + offset

\* loop_time: // is floor division, also for a negative t_now
loop_time(interval, offset, t_now) ==
    LET t0 == (t_now \div interval) * interval + offset
    IN  IF t0 <= t_now THEN t0 + interval ELSE t0

Event(event_time, counter) == [event_time |-> event_time, loop_counter |-> counter]

\* The instance as __init__ leaves it, whatever its schedule and the clock.
Created ==
    /\ running = FALSE
    /\ stopped = FALSE
    /\ callerPc = "created"
    /\ launcherPc = "none"
    /\ prodPc = "none"
    /\ t_event = 0
    /\ loop_counter = 0
    /\ event = NoEvent
    /\ prodTimer = 0
    /\ queue = <<>>
    /\ consPc = "none"
    /\ item = NoItem
    /\ cons_tasks = [c \in Consumers |-> NoTask]
    /\ doneOrder = <<>>
    /\ results = <<>>
    /\ wdPc = "none"
    /\ wdTimer = 0
    /\ emitted = <<>>
    /\ enqueued = <<>>
    /\ dequeued = <<>>
    /\ ninvoked = [c \in Consumers |-> 0]
    /\ skipped = {}
    /\ waiting = 0
    /\ prodFailedAt = -1
    /\ consFailedAt = -1
    /\ stopAge = -1
    /\ nadjust = 0
    /\ nstart = 0
    /\ exceptions = {}
    /\ ex = NoException
    /\ log = {}
    /\ ticks = <<>>
    /\ requested = -1

\* The legacy poller has not been started.
NoPoller ==
    /\ now = 0
    /\ mainPc = "none"
    /\ drain = FALSE
    /\ msg = NoMsg
    /\ dt_next = NoDatetime
    /\ task_next = NoRun
    /\ input_queue = <<>>
    /\ result_queue = <<>>
    /\ inserted = <<>>
    /\ scheduled = <<>>
    /\ nsignal = 0

\* No helper function has been called.
NoCalls ==
    /\ args = NoArgs
    /\ ret = NoReturn
    /\ calls = <<>>
    /\ client = NoClient
    /\ NoPoller

Init ==
    /\ NoCalls
    /\ Created
    /\ loop_interval \in Intervals
    /\ loop_offset \in Offsets
    /\ wall = 0

\* The worker's loop is running the pipeline.
Active == launcherPc = "gather"

\* ---- caller thread -------------------------------------------------------
\* start(), up to and including self.thread.start()
start_thread ==
    /\ callerPc = "created"
    /\ callerPc' = "starting"
    /\ nstart' = nstart + 1
    /\ launcherPc' = "ready"
    /\ UNCHANGED <<flagVars, configVars, utilVars,
                   wall, prodVars, queue, consVars,
                   wdVars, histVars, stopAge, nadjust, errVars,
                   ticks, requested>>

\* faulty variant: start() begins a fresh life and clears self.stopped
start_return_Reset ==
    /\ callerPc = "starting"
    /\ running' = TRUE
    /\ stopped' = FALSE
    /\ callerPc' = "started"
    /\ UNCHANGED <<configVars, utilVars,
                   nstart, launcherPc, wall, prodVars,
                   queue, consVars, wdVars, histVars, stopAge, nadjust, errVars,
                   ticks, requested>>

\* start(), self.running = True and the return
start_return ==
    /\ callerPc = "starting"
    /\ running' = TRUE
    /\ callerPc' = "started"
    /\ UNCHANGED <<stopped, configVars, utilVars,
                   nstart, launcherPc, wall, prodVars,
                   queue, consVars, wdVars, histVars, stopAge, nadjust, errVars,
                   ticks, requested>>

\* faulty variant: stop() waits for the shutdown and returns with running false
stop_Blocking ==
    /\ callerPc \in {"created", "started"}
    /\ Active => wdTimer \in StopPhases
    /\ stopped' = TRUE
    /\ running' = FALSE
    /\ stopAge' = IF callerPc = "started" /\ stopAge = -1 THEN 0 ELSE stopAge
    /\ UNCHANGED <<configVars, utilVars,
                   callerVars, launcherPc, wall, prodVars, queue,
                   consVars, wdVars, histVars, nadjust, errVars,
                   ticks, requested>>

\* stop(): self.stopped = True
stop ==
    /\ callerPc \in {"created", "started"}
    /\ Active => wdTimer \in StopPhases
    /\ stopped' = TRUE
    /\ stopAge' = IF callerPc = "started" /\ stopAge = -1 THEN 0 ELSE stopAge
    /\ UNCHANGED <<running, configVars, utilVars,
                   callerVars, launcherPc, wall, prodVars,
                   queue, consVars, wdVars, histVars, nadjust, errVars,
                   ticks, requested>>

\* start() has no guard and may be called again on the same instance: it makes
\* a new loop and a new thread that runs launcher afresh.  Here it is called
\* again once the pipeline of the call before has terminated.
start_again ==
    /\ callerPc = "started"
    /\ launcherPc = "done"
    /\ nstart < MaxStarts
    /\ callerPc' = "starting"
    /\ nstart' = nstart + 1
    /\ launcherPc' = "ready"
    /\ UNCHANGED <<flagVars, configVars, utilVars,
                   wall, prodVars, queue, consVars,
                   wdVars, histVars, stopAge, nadjust, errVars,
                   ticks, requested>>

\* ---- worker thread: the asyncio loop ---------------------------------------

\* The producer task is between two reads of time() in one uninterrupted run.
ProducerHoldsLoop == prodPc \in {"loop_time", "delta"}

\* Another task may run: the loop is up and no task is in the middle of a run.
LoopFree == Active /\ ~ProducerHoldsLoop

\* run_loop and launcher up to the gather: on the new loop of this start() a
\* new queue and the three tasks are created and each task runs to its first
\* suspension (the producer up to its first time()).  Tasks left on the loop
\* of an earlier start() never run again; the histories are those of this run.
launcher_start ==
    /\ launcherPc = "ready"
    /\ launcherPc' = "gather"
    /\ queue' = <<>>
    /\ prodPc' = "loop_time"
    /\ loop_counter' = 0
    /\ t_event' = 0
    /\ event' = NoEvent
    /\ prodTimer' = 0
    /\ consPc' = "get"
    /\ item' = NoItem
    /\ cons_tasks' = [c \in Consumers |-> NoTask]
    /\ doneOrder' = <<>>
    /\ results' = <<>>
    /\ wdPc' = "sleep"
    /\ wdTimer' = WatchdogInterval
    /\ emitted' = <<>>
    /\ enqueued' = <<>>
    /\ dequeued' = <<>>
    /\ ninvoked' = [c \in Consumers |-> 0]
    /\ skipped' = {}
    /\ waiting' = 0
    /\ prodFailedAt' = -1
    /\ consFailedAt' = -1
    /\ exceptions' = {}
    /\ ex' = NoException
    /\ log' = {}
    /\ requested' = -1
    /\ UNCHANGED <<flagVars, configVars, utilVars,
                   callerVars, wall, stopAge, nadjust,
                   ticks>>

\* The exception object of a failed call: the stage, and which consumer.
Exception(stage, call) == [stage |-> stage, call |-> call]

\* asyncio.gather: the exception it raises is that of the first awaitable that
\* raised; the exception of one that raises later is marked retrieved and
\* dropped.
FirstException(cur, e) == IF cur = NoException THEN e ELSE cur

\* faulty variant: the gather waits until every stage has ended
AnyRaised_All == prodPc = "raised" /\ consPc = "raised" /\ wdPc = "raised"

\* launcher: asyncio.gather(producer, consumer, watchdog) has an exception
AnyRaised == prodPc = "raised" \/ consPc = "raised" \/ wdPc = "raised"

\* launcher: the gather raises the first exception; except (log.error of ex),
\* finally.  The other tasks are left as they are.
launcher_finish ==
    /\ LoopFree
    /\ AnyRaised
    /\ launcherPc' = "done"
    /\ log' = log \cup {ex}
    /\ running' = FALSE
    /\ UNCHANGED <<stopped, configVars, utilVars,
                   callerVars, wall, prodVars, queue,
                   consVars, wdVars, histVars, stopAge, nadjust, exceptions,
                   ex, ticks, requested>>

\* ---- Event Sequence and Production Stage -----------------------------------
\* faulty variant: the next tick follows the tick before, whatever the clock says
DefaultNow_LastTick(tick, clock) == tick

\* loop_time: if t_now is None: t_now = time()
DefaultNow(tick, clock) == clock

\* loop_generator: t_event = self.loop_time(...) with t_now = time().  The
\* first reading of time() made after the Production Stage has asked for an
\* event is the time of that request.
loop_generator ==
    /\ Active
    /\ prodPc = "loop_time"
    /\ t_event' = loop_time(loop_interval, loop_offset, DefaultNow(t_event, wall))
    /\ prodPc' = "delta"
    /\ requested' = IF requested = -1 THEN wall ELSE requested
    /\ UNCHANGED <<flagVars, configVars, utilVars,
                   callerVars, launcherPc, wall,
                   loop_counter, event, prodTimer, queue, consVars, wdVars,
                   histVars, stopAge, nadjust, errVars, ticks>>

\* faulty variant: a skipped tick uses up a counter value
SkipCounter_Advance(counter) == counter + 1

\* event_generator, delta < 0: the counter after a skipped tick
SkipCounter(counter) == counter

\* faulty variant: the skipped tick is surfaced as an error ending the stage
AfterSkip_Raise == "raised"

\* event_generator, delta < 0: log.warning, asyncio.sleep(0.2), continue
AfterSkip == "grace"

\* faulty variant: a tick is never taken to have passed
TickPassed_Never(delta) == FALSE

\* event_generator: if delta < 0
TickPassed(delta) == delta < 0

\* event_generator: delta = t_event - time(); skip, or create the event and
\* sleep until it is due
event_generator ==
    /\ Active
    /\ prodPc = "delta"
    /\ LET delta == t_event - wall
       IN  IF TickPassed(delta)
           THEN /\ prodPc' = AfterSkip
                /\ prodTimer' = GraceSleep
                /\ loop_counter' = SkipCounter(loop_counter)
                /\ skipped' = skipped \cup {t_event}
                /\ UNCHANGED <<event, requested>>
           ELSE /\ event' = Event(t_event, loop_counter)
                /\ prodPc' = "sleep"
                /\ prodTimer' = delta
                /\ requested' = -1
                /\ UNCHANGED <<loop_counter, skipped>>
    /\ UNCHANGED <<flagVars, configVars, utilVars,
                   callerVars, launcherPc, wall, t_event,
                   queue, consVars, wdVars, emitted, enqueued, dequeued,
                   ninvoked, waiting, prodFailedAt, consFailedAt, stopAge,
                   nadjust, errVars, ticks>>

\* event_generator: asyncio.sleep(0.2) is over; continue
grace_over ==
    /\ LoopFree
    /\ prodPc = "grace"
    /\ prodTimer = 0
    /\ prodPc' = "loop_time"
    /\ UNCHANGED <<flagVars, configVars, utilVars,
                   callerVars, launcherPc, wall, t_event,
                   loop_counter, event, prodTimer, queue, consVars, wdVars,
                   histVars, stopAge, nadjust, errVars, ticks, requested>>

\* event_generator: asyncio.sleep(delta) is over; yield event.
\* production_scheduler: the producer is called with it.
yield_event ==
    /\ LoopFree
    /\ prodPc = "sleep"
    /\ prodTimer = 0
    /\ emitted' = Append(emitted, event)
    /\ prodPc' = "produce"
    /\ UNCHANGED <<flagVars, configVars, utilVars,
                   callerVars, launcherPc, wall, t_event,
                   loop_counter, event, prodTimer, queue, consVars, wdVars,
                   enqueued, dequeued, ninvoked, skipped, waiting, prodFailedAt,
                   consFailedAt, stopAge, nadjust, errVars, ticks, requested>>

\* faulty variant: the pair is put on the queue twice
QueuePut_Twice(q, x) == Append(Append(q, x), x)

\* asyncio.Queue: put_nowait on an unbounded queue
QueuePut(q, x) == Append(q, x)

\* faulty variant: the queue has room for one item and put waits for room
QueueFull_One(q) == Len(q) >= 1

\* asyncio.Queue(): maxsize is 0, so full() is never true and put never waits
QueueFull(q) == FALSE

\* event_generator after the yield: loop_counter += 1
NextCounter(counter) == counter + 1

\* production_scheduler: self.produce(event) returns payload; the pair is put
\* on the queue and the next event is asked for (loop_counter += 1).
produce_return ==
    /\ LoopFree
    /\ prodPc = "produce"
    /\ ~QueueFull(queue)
    /\ queue' = QueuePut(queue, [event |-> event, payload |-> PayloadOf(event)])
    /\ enqueued' = Append(enqueued, [event |-> event, payload |-> PayloadOf(event)])
    /\ loop_counter' = NextCounter(loop_counter)
    /\ prodPc' = "loop_time"
    /\ UNCHANGED <<flagVars, configVars, utilVars,
                   callerVars, launcherPc, wall, t_event,
                   event, prodTimer, consVars, wdVars, emitted, dequeued,
                   ninvoked, skipped, waiting, prodFailedAt, consFailedAt,
                   stopAge, nadjust, errVars, ticks, requested>>

\* faulty variant: the failure is swallowed and the loop asks for the next event
AfterProduceRaise_Retry == "loop_time"

\* production_scheduler: the position of the task after self.produce raised
AfterProduceRaise == "raised"

\* production_scheduler: self.produce(event) raises; the task ends with it
produce_raise ==
    /\ LoopFree
    /\ prodPc = "produce"
    /\ prodPc' = AfterProduceRaise
    /\ prodFailedAt' = event.loop_counter
    /\ exceptions' = exceptions \cup {Exception("producer", 0)}
    /\ ex' = FirstException(ex, Exception("producer", 0))
    /\ UNCHANGED <<flagVars, configVars, utilVars,
                   callerVars, launcherPc, wall, t_event,
                   loop_counter, event, prodTimer, queue, consVars, wdVars,
                   emitted, enqueued, dequeued, ninvoked, skipped, waiting,
                   consFailedAt, stopAge, nadjust, log, ticks, requested>>

\* ---- Delivery Queue and Consumption Stage ----------------------------------
\* faulty variant: get takes the newest item
QueueGet_Newest(q) == q[Len(q)]

\* asyncio.Queue.get: the item taken
QueueGet(q) == Head(q)

\* faulty variant: get leaves the item in the queue
QueueRest_Keep(q) == q

\* asyncio.Queue.get: the queue it leaves
QueueRest(q) == Tail(q)

\* consumer_loop: cons_tasks = [create_task(c(event, payload)) for c in consumers]
CreateTasks(x) ==
    [c \in Consumers |->
        [st |-> "pending", event |-> x.event, payload |-> x.payload, res |-> -1]]

\* faulty variant: the wait ends with the first task that returns
GatherDone_First(tasks) == \E c \in Consumers : tasks[c].st = "done"

\* asyncio.gather(*cons_tasks) has its result: every task returned
GatherDone(tasks) == \A c \in Consumers : tasks[c].st = "done"

\* faulty variant: the results are listed in the order the tasks finished
GatherResults_Completed(tasks, order) ==
    [c \in Consumers |-> IF c <= Len(order) THEN tasks[order[c]].res ELSE -1]

\* asyncio.gather(*cons_tasks): the list of results, in the order of cons_tasks
GatherResults(tasks, order) == [c \in Consumers |-> tasks[c].res]

\* consumer_loop: queue.get() has an item; one task per consumer is created
\* with it and the loop waits in gather.
Dequeue ==
    /\ item' = QueueGet(queue)
    /\ queue' = QueueRest(queue)
    /\ cons_tasks' = CreateTasks(QueueGet(queue))
    /\ doneOrder' = <<>>
    /\ dequeued' = Append(dequeued, QueueGet(queue))
    /\ ninvoked' = [c \in Consumers |-> ninvoked[c] + 1]
    /\ waiting' = IF Len(queue) > waiting THEN Len(queue) ELSE waiting
    /\ consPc' = "gather"

\* consumer_loop woken in queue.get() by a put
consumer_get ==
    /\ LoopFree
    /\ consPc = "get"
    /\ queue # <<>>
    /\ Dequeue
    /\ UNCHANGED results
    /\ UNCHANGED <<flagVars, configVars, utilVars,
                   callerVars, launcherPc, wall, prodVars,
                   wdVars, emitted, enqueued, skipped, prodFailedAt,
                   consFailedAt, stopAge, nadjust, errVars, ticks, requested>>

\* the call of consumer c returns
consumer_return(c) ==
    /\ LoopFree
    /\ cons_tasks[c].st = "pending"
    /\ cons_tasks' = [cons_tasks EXCEPT
                        ![c].st = "done",
                        ![c].res = ResultOf(c, cons_tasks[c].event,
                                            cons_tasks[c].payload)]
    /\ doneOrder' = Append(doneOrder, c)
    /\ UNCHANGED <<flagVars, configVars, utilVars,
                   callerVars, launcherPc, wall, prodVars,
                   queue, consPc, item, results, wdVars, histVars, stopAge,
                   nadjust, errVars, ticks, requested>>

\* faulty variant: gather collects the exception and goes on waiting
AfterConsumerRaise_Swallow(pc) == pc

\* consumer_loop: the position of the loop after gather saw a task raise
AfterConsumerRaise(pc) == IF pc = "gather" THEN "raised" ELSE pc

\* faulty variant: the calls of the item that are still running are cancelled
FailTask_CancelSiblings(tasks, c) ==
    [o \in Consumers |->
        IF o = c THEN [tasks[o] EXCEPT !.st = "failed"]
        ELSE IF tasks[o].st = "pending" THEN [tasks[o] EXCEPT !.st = "cancelled"]
        ELSE tasks[o]]

\* The task of consumer c ends with an exception; gather without
\* return_exceptions hands it on and leaves the other tasks alone.
FailTask(tasks, c) == [tasks EXCEPT ![c].st = "failed"]

\* a consumer call raises: gather raises at the first one and consumer_loop
\* ends with that exception; the other tasks of the item are left as they are
\* and the exception of one that raises later is dropped
consumer_raise(c) ==
    /\ LoopFree
    /\ cons_tasks[c].st = "pending"
    /\ cons_tasks' = FailTask(cons_tasks, c)
    /\ consPc' = AfterConsumerRaise(consPc)
    /\ consFailedAt' = IF consPc = "gather" THEN Len(dequeued) ELSE consFailedAt
    /\ exceptions' = exceptions \cup {Exception("consumer", c)}
    /\ ex' = IF consPc = "gather"
             THEN FirstException(ex, Exception("consumer", c))
             ELSE ex
    /\ UNCHANGED <<flagVars, configVars, utilVars,
                   callerVars, launcherPc, wall, prodVars,
                   queue, item, doneOrder, results, wdVars, emitted, enqueued,
                   dequeued, ninvoked, skipped, waiting, prodFailedAt, stopAge,
                   nadjust, log, ticks, requested>>

\* consumer_loop: gather returns results; the loop goes back to queue.get(),
\* which returns at once when an item is waiting
consumer_join ==
    /\ LoopFree
    /\ consPc = "gather"
    /\ GatherDone(cons_tasks)
    /\ results' = GatherResults(cons_tasks, doneOrder)
    /\ IF queue # <<>>
       THEN Dequeue
       ELSE /\ consPc' = "get"
            /\ UNCHANGED <<item, queue, cons_tasks, doneOrder, dequeued,
                           ninvoked, waiting>>
    /\ UNCHANGED <<flagVars, configVars, utilVars,
                   callerVars, launcherPc, wall, prodVars,
                   wdVars, emitted, enqueued, skipped, prodFailedAt,
                   consFailedAt, stopAge, nadjust, errVars, ticks, requested>>

\* ---- Watchdog ------------------------------------------------------------
\* faulty variant: the watchdog raises at every poll
WatchdogRaises_Always(flag) == TRUE

\* watchdog: if self.stopped
WatchdogRaises(flag) == flag

\* watchdog: asyncio.sleep(1.5) is over; raise if self.stopped, else sleep again
watchdog ==
    /\ LoopFree
    /\ wdPc = "sleep"
    /\ wdTimer = 0
    /\ IF WatchdogRaises(stopped)
       THEN /\ wdPc' = "raised"
            /\ exceptions' = exceptions \cup {Exception("watchdog", 0)}
            /\ ex' = FirstException(ex, Exception("watchdog", 0))
            /\ UNCHANGED wdTimer
       ELSE /\ wdTimer' = WatchdogInterval
            /\ UNCHANGED <<wdPc, exceptions, ex>>
    /\ UNCHANGED <<flagVars, configVars, utilVars,
                   callerVars, launcherPc, wall, prodVars,
                   queue, consVars, histVars, stopAge, nadjust, log,
                   ticks, requested>>

\* ---- time ----------------------------------------------------------------
\* Some task of the loop can run now.
WorkerReady ==
    \/ ProducerHoldsLoop
    \/ prodPc \in {"grace", "sleep"} /\ prodTimer = 0
    \/ wdPc = "sleep" /\ wdTimer = 0
    \/ consPc = "get" /\ queue # <<>>
    \/ consPc = "gather" /\ GatherDone(cons_tasks)
    \/ AnyRaised

\* 100 ms pass on both clocks while the loop runs and no task can run.
Tick ==
    /\ Active
    /\ ~WorkerReady
    /\ wall < MaxTime
    /\ wall' = wall + 1
    /\ prodTimer' = IF prodPc \in {"grace", "sleep"} THEN prodTimer - 1 ELSE prodTimer
    /\ wdTimer' = IF wdPc = "sleep" THEN wdTimer - 1 ELSE wdTimer
    /\ stopAge' = IF stopAge >= 0 /\ stopAge <= WatchdogInterval
                  THEN stopAge + 1 ELSE stopAge
    /\ UNCHANGED <<flagVars, configVars, utilVars,
                   callerVars, launcherPc, prodPc,
                   t_event, loop_counter, event, queue, consVars, wdPc,
                   histVars, nadjust, errVars, ticks, requested>>

\* The loop has ended and nothing is scheduled any more: time passes until a
\* stop request is older than the watchdog's interval.
Elapse ==
    /\ launcherPc = "done"
    /\ stopAge >= 0
    /\ stopAge <= WatchdogInterval
    /\ wall' = wall + (WatchdogInterval + 1 - stopAge)
    /\ stopAge' = WatchdogInterval + 1
    /\ UNCHANGED <<flagVars, configVars, utilVars,
                   callerVars, launcherPc, prodVars,
                   queue, consVars, wdVars, histVars, nadjust, errVars,
                   ticks, requested>>

\* The wall clock is set forward or back by d.  The program sees wall only when
\* the producer task reads time(), so the step is taken just before a read.
ClockAdjust(d) ==
    /\ Active
    /\ ProducerHoldsLoop
    /\ nadjust < MaxAdjust
    /\ wall + d >= 0
    /\ wall' = wall + d
    /\ nadjust' = nadjust + 1
    /\ UNCHANGED <<flagVars, configVars, utilVars,
                   callerVars, launcherPc, prodVars,
                   queue, consVars, wdVars, histVars, stopAge, errVars,
                   ticks, requested>>

Next ==
    \/ start_thread
    \/ start_return
    \/ stop
    \/ launcher_start
    \/ launcher_finish
    \/ loop_generator
    \/ event_generator
    \/ grace_over
    \/ yield_event
    \/ produce_return
    \/ produce_raise
    \/ consumer_get
    \/ \E c \in Consumers : consumer_return(c)
    \/ \E c \in Consumers : consumer_raise(c)
    \/ consumer_join
    \/ watchdog
    \/ Tick
    \/ Elapse
    \/ \E d \in AdjustSteps : ClockAdjust(d)

Spec == Init /\ [][Next]_vars

\* ---- loop_time on its own ---------------------------------------------------
\* Any schedule with interval > 0 and offset in [0, interval), any clock.
ClockInit ==
    /\ Created
    /\ NoCalls
    /\ loop_interval \in 1..MaxInterval
    /\ loop_offset \in 0..(loop_interval - 1)
    /\ wall \in Nows

\* loop_time(loop_interval, loop_offset, t_now) with t_now = wall
loop_time_call ==
    /\ ticks = <<>>
    /\ t_event' = loop_time(loop_interval, loop_offset, wall)
    /\ ticks' = <<t_event'>>
    /\ UNCHANGED <<flagVars, configVars, utilVars,
                   callerVars, launcherPc, wall, prodPc,
                   loop_counter, event, prodTimer, queue, consVars, wdVars,
                   histVars, stopAge, nadjust, errVars, requested>>

\* loop_time called again with t_now advanced to the result before
loop_time_again ==
    /\ ticks # <<>>
    /\ Len(ticks) < MaxCalls
    /\ wall' = t_event
    /\ t_event' = loop_time(loop_interval, loop_offset, t_event)
    /\ ticks' = Append(ticks, t_event')
    /\ UNCHANGED <<flagVars, configVars, utilVars,
                   callerVars, launcherPc, prodPc,
                   loop_counter, event, prodTimer, queue, consVars, wdVars,
                   histVars, stopAge, nadjust, errVars, requested>>

ClockNext == loop_time_call \/ loop_time_again

ClockSpec == ClockInit /\ [][ClockNext]_vars

\* The conveyor with start() called again after termination.
RestartNext == Next \/ start_again

RestartSpec == Init /\ [][RestartNext]_vars

\* The wall clock is set forward or back by d while the producer task is in
\* its asyncio.sleep(delta): the timer of the sleep runs on the loop's clock
\* and is left as it is.
ClockAdjustAsleep(d) ==
    /\ Active
    /\ prodPc = "sleep"
    /\ prodTimer > 0
    /\ nadjust < MaxAdjust
    /\ wall + d >= 0
    /\ wall' = wall + d
    /\ nadjust' = nadjust + 1
    /\ UNCHANGED <<flagVars, configVars, utilVars, callerVars, launcherPc,
                   prodVars, queue, consVars, wdVars, histVars, stopAge,
                   errVars, ticks, requested>>

\* The conveyor with the wall clock set at any time, also during a sleep.
AsleepNext == Next \/ \E d \in AdjustSteps : ClockAdjustAsleep(d)

AsleepSpec == Init /\ [][AsleepNext]_vars

\* The event loop runs every task that can run.
FairSpec ==
    /\ Spec
    /\ WF_vars(launcher_start)
    /\ WF_vars(launcher_finish)
    /\ WF_vars(loop_generator)
    /\ WF_vars(event_generator)

\* ---- utils/syslog_handler.py ------------------------------------------------
\* A Python str is the sequence of its characters; None is a value that is
\* no str.
None == <<"None">>
Str_dev == <<"/", "d", "e", "v">>
Str_udp == <<"u", "d", "p">>
Str_tcp == <<"t", "c", "p">>
Str_514 == <<"5", "1", "4">>
Omitted == <<"omitted">>

SOCK_DGRAM == "SOCK_DGRAM"
SOCK_STREAM == "SOCK_STREAM"

\* The hosts and ports get_syslog_handler_args is called with.
Str_dev_log == <<"/", "d", "e", "v", "/", "l", "o", "g">>
Str_devices == <<"/", "d", "e", "v", "i", "c", "e", "s">>
Str_de == <<"/", "d", "e">>
Str_dev_log_rel == <<"d", "e", "v", "/", "l", "o", "g">>
Str_localhost == <<"l", "o", "c", "a", "l", "h", "o", "s", "t">>
Str_logger ==
    <<"l", "o", "g", "g", "e", "r", ".", "e", "x",
      "a", "m", "p", "l", "e", ".", "c", "o", "m">>
Str_ip == <<"1", "0", ".", "0", ".", "0", ".", "7">>
Str_520 == <<"5", "2", "0">>
Str_520_tcp == <<"5", "2", "0", "/", "t", "c", "p">>
Str_520_udp == <<"5", "2", "0", "/", "u", "d", "p">>
Str_520_TCP == <<"5", "2", "0", "/", "T", "C", "P">>
Str_520_ == <<"5", "2", "0", "/">>
Str_520_sctp == <<"5", "2", "0", "/", "s", "c", "t", "p">>
Str__tcp == <<"/", "t", "c", "p">>
Str_520_x_tcp == <<"5", "2", "0", "/", "x", "/", "t", "c", "p">>
Str_520_tcp_x == <<"5", "2", "0", "/", "t", "c", "p", "/", "x">>
Str_0 == <<"0">>
Str_65535_tcp == <<"6", "5", "5", "3", "5", "/", "t", "c", "p">>

Hosts ==
    { None, Str_dev_log, Str_dev, Str_devices, Str_de, Str_dev_log_rel,
      Str_localhost, Str_logger, Str_ip }
Ports ==
    { Omitted, None, Str_514, Str_520, Str_520_tcp, Str_520_udp, Str_520_TCP,
      Str_520_, Str_520_sctp, Str__tcp, Str_tcp, Str_520_x_tcp, Str_520_tcp_x,
      Str_0, Str_65535_tcp }

Digits == <<"0", "1", "2", "3", "4", "5", "6", "7", "8", "9">>
IsDigit(ch) == \E d \in 1..Len(Digits) : Digits[d] = ch
DigitValue(ch) == (CHOOSE d \in 1..Len(Digits) : Digits[d] = ch) - 1

\* str.startswith
startswith(str, prefix) ==
    /\ Len(str) >= Len(prefix)
    /\ SubSeq(str, 1, Len(prefix)) = prefix

\* str.split(sep) for a separator of one character: the list of the parts
RECURSIVE split(_, _)
split(str, sep) ==
    IF \A i \in 1..Len(str) : str[i] # sep
    THEN <<str>>
    ELSE LET i == CHOOSE k \in 1..Len(str) :
                      str[k] = sep /\ \A j \in 1..(k - 1) : str[j] # sep
         IN  <<SubSeq(str, 1, i - 1)>> \o split(SubSeq(str, i + 1, Len(str)), sep)

\* int(str) has a value for a str of decimal digits, else it raises ValueError
IsInt(str) == str # <<>> /\ \A i \in 1..Len(str) : IsDigit(str[i])
RECURSIVE int(_)
int(str) ==
    IF Len(str) = 1
    THEN DigitValue(str[1])
    ELSE 10 * int(SubSeq(str, 1, Len(str) - 1)) + DigitValue(str[Len(str)])

Raised(exc) == [raised |-> exc]

\* faulty variant: a socktype is given for a unix socket too
UnixSocketArgs_Socktype(host) == [address |-> host, socktype |-> SOCK_DGRAM]

\* get_syslog_handler_args: return {"address": host}
UnixSocketArgs(host) == [address |-> host]

\* faulty variant: a protocol that is not in the table is taken for tcp
SOCKET_DICT_get_Stream(protocol) ==
    IF protocol = Str_udp THEN SOCK_DGRAM ELSE SOCK_STREAM

\* SOCKET_DICT.get(protocol, socket.SOCK_DGRAM)
SOCKET_DICT_get(protocol) ==
    IF protocol = Str_udp THEN SOCK_DGRAM
    ELSE IF protocol = Str_tcp THEN SOCK_STREAM
    ELSE SOCK_DGRAM

get_syslog_handler_args(host, port) ==
    IF host = None THEN [kind |-> "None"]
    ELSE IF startswith(host, Str_dev) THEN UnixSocketArgs(host)
    ELSE IF port = None THEN Raised("AttributeError")
    ELSE LET pp == split(port, "/")
             port0 == pp[1]
             protocol == IF Len(pp) > 1 THEN pp[Len(pp)] ELSE Str_udp
             socktype == SOCKET_DICT_get(protocol)
         IN  IF IsInt(port0)
             THEN [address |-> <<host, int(port0)>>, socktype |-> socktype]
             ELSE Raised("ValueError")

\* The conveyor is not under study: an instance that is never started.
Idle ==
    /\ Created
    /\ loop_interval \in Intervals
    /\ loop_offset \in Offsets
    /\ wall = 0

SyslogInit ==
    /\ Idle
    /\ \E h \in Hosts, p \in Ports :
           args = [fn |-> "get_syslog_handler_args", host |-> h, port |-> p]
    /\ ret = NoReturn
    /\ calls = <<>>
    /\ client = NoClient
    /\ NoPoller

\* get_syslog_handler_args(host) or get_syslog_handler_args(host, port)
syslog_call ==
    /\ args.fn = "get_syslog_handler_args"
    /\ ret = NoReturn
    /\ ret' = get_syslog_handler_args(
                  args.host, IF args.port = Omitted THEN Str_514 ELSE args.port)
    /\ UNCHANGED <<conveyorVars, args, calls, client, pollerVars>>

SyslogNext == syslog_call

SyslogSpec == SyslogInit /\ [][SyslogNext]_vars

\* ---- paii/paii_poll.py: MqttConsumer ---------------------------------------
\* faulty variant: the remainder is taken of the number of reads so far
Remainder_Reads(counter, downsample) == (counter + 1) % downsample

\* consume: mod = event.loop_counter % self.downsample
Remainder(counter, downsample) == counter % downsample

\* faulty variant: a downsample of 0 is taken to mean no downsampling
consume_NoBail(downsample, ev, publish_ok) ==
    LET connect == ev.loop_counter < 1
        mod == IF downsample = 0 THEN 0 ELSE Remainder(ev.loop_counter, downsample)
    IN  IF mod # 0
        THEN [ret |-> [value |-> mod], connect |-> connect, publish |-> FALSE]
        ELSE [ret |-> IF publish_ok THEN [value |-> 0] ELSE Raised("Exception"),
              connect |-> connect, publish |-> TRUE]

\* MqttConsumer.consume(event, payload) with self.downsample = downsample and
\* the outcome of client.publish: what it returns or raises, and whether it
\* called start_client and publish.
consume(downsample, ev, publish_ok) ==
    LET connect == ev.loop_counter < 1
    IN  IF downsample = 0
        THEN [ret |-> Raised("ZeroDivisionError"), connect |-> connect,
              publish |-> FALSE]
        ELSE LET mod == Remainder(ev.loop_counter, downsample)
             IN  IF mod # 0
                 THEN [ret |-> [value |-> mod], connect |-> connect,
                       publish |-> FALSE]
                 ELSE [ret |-> IF publish_ok THEN [value |-> 0]
                               ELSE Raised("Exception"),
                       connect |-> connect, publish |-> TRUE]

\* MqttConsumer(host, topic, downsample) with --mq-downsample, an int.
MqttInit ==
    /\ Idle
    /\ \E d \in 0..MaxDownsample :
           args = [fn |-> "MqttConsumer.consume", downsample |-> d]
    /\ ret = NoReturn
    /\ calls = <<>>
    /\ client = NoClient
    /\ NoPoller

\* The conveyor calls consume once for each event, in loop_counter order from
\* 0, until a call raises.
mqtt_consume ==
    /\ args.fn = "MqttConsumer.consume"
    /\ Len(calls) < MaxEvents
    /\ ~("raised" \in DOMAIN ret)
    /\ \E publish_ok \in BOOLEAN :
           LET ev == Event(0, Len(calls))
               r == consume(args.downsample, ev, publish_ok)
           IN  /\ r.publish \/ publish_ok
               /\ ret' = r.ret
               /\ calls' = Append(calls, [event |-> ev, ret |-> r.ret,
                                          connect |-> r.connect,
                                          publish |-> r.publish])
    /\ UNCHANGED <<conveyorVars, args, client, pollerVars>>

MqttNext == mqtt_consume

MqttSpec == MqttInit /\ [][MqttNext]_vars

\* ---- paii/purple_data.py ----------------------------------------------------
\* class Field; convert is "none" or the name of the function to apply
Field(json_key, store_flag, db_name, convert) ==
    [json_key |-> json_key, store_flag |-> store_flag, db_name |-> db_name,
     convert |-> convert]

\* Entries of the list fields: stored and not stored, renamed, converted.
FieldPool ==
    { Field("paii_time", TRUE, "paii_time", "none"),
      Field("SensorId", FALSE, "SensorId", "none"),
      Field("Geo", TRUE, "geo", "none"),
      Field("Mem", FALSE, "Mem", "none"),
      Field("current_temp_f", TRUE, "current_temp_c", "fahrenheit2celsius"),
      Field("current_dewpoint_f", TRUE, "current_dewpoint_c",
            "fahrenheit2celsius") }

\* The lists of up to MaxFields entries, no entry twice, in any order.
FieldLists ==
    UNION { {fl \in [1..n -> FieldPool] : \A i, j \in 1..n : i # j => fl[i] # fl[j]}
            : n \in 1..MaxFields }

\* Temperatures the device reports, in degrees Fahrenheit.
Temps == {0, 52}

\* The device data: a value for every json_key.
DeviceData(temp) ==
    [k \in {f.json_key : f \in FieldPool} |->
        CASE k = "current_temp_f" -> temp
          [] k = "current_dewpoint_f" -> 36
          [] k = "paii_time" -> 1598
          [] OTHER -> 7]

\* fahrenheit2celsius: round((f - 32) * 5 / 9, 2), the result in hundredths
\* of a degree
fahrenheit2celsius(f) == (2 * ((f - 32) * 500) + 9) \div 18

\* A value as the database gets it: in hundredths of its unit.
Hundredths(v) == 100 * v

\* gen_stored: (f for f in fields if f.store_flag)
gen_stored(fields) == SelectSeq(fields, LAMBDA f : f.store_flag)

\* faulty variant: the placeholders are numbered from 0
Placeholders_FromZero(n) == [i \in 1..n |-> i - 1]

\* compose_insert: [f"${i+1}" for i in range(len(field_names))], the numbers
Placeholders(n) == [i \in 1..n |-> (i - 1) + 1]

\* compose_insert: the table, the column list and the placeholder list of the
\* INSERT statement
compose_insert(field_names, table_name) ==
    [table |-> table_name, fields |-> field_names,
     placeholders |-> Placeholders(Len(field_names))]

\* dict item assignment on an ordered dict kept as a list of (key, value): a
\* key already there keeps its place and takes the new value
RECURSIVE DictSet(_, _, _)
DictSet(d, k, v) ==
    IF d = <<>> THEN <<[key |-> k, value |-> v]>>
    ELSE IF Head(d).key = k THEN <<[key |-> k, value |-> v]>> \o Tail(d)
    ELSE <<Head(d)>> \o DictSet(Tail(d), k, v)

\* convert_data: OrderedDict({f.db_name: f.convert(data[f.json_key]) if
\* f.convert else data[f.json_key] for f in gen_stored()})
RECURSIVE ConvertFields(_, _, _)
ConvertFields(d, stored, data) ==
    IF stored = <<>> THEN d
    ELSE LET f == Head(stored)
             v == IF f.convert = "fahrenheit2celsius"
                  THEN fahrenheit2celsius(data[f.json_key])
                  ELSE Hundredths(data[f.json_key])
         IN  ConvertFields(DictSet(d, f.db_name, v), Tail(stored), data)

convert_data(data, fields) == ConvertFields(<<>>, gen_stored(fields), data)

\* tuple(paii_data.values())
DictValues(d) == [i \in 1..Len(d) |-> d[i].value]

\* The module's list fields and the payload of one event.
FieldsInit ==
    /\ Idle
    /\ \E fl \in FieldLists, temp \in Temps :
           args = [fn |-> "convert_data", fields |-> fl, data |-> DeviceData(temp)]
    /\ ret = NoReturn
    /\ calls = <<>>
    /\ client = NoClient
    /\ NoPoller

\* amain: insert_sql = compose_insert([f.db_name for f in gen_stored()], table);
\* consume_postgres: paii_data = convert_data(payload), paii_values =
\* tuple(paii_data.values()), conn.execute(insert_sql, *paii_values)
insert_row ==
    /\ args.fn = "convert_data"
    /\ ret = NoReturn
    /\ LET stored == gen_stored(args.fields)
           insert_sql == compose_insert([i \in 1..Len(stored) |-> stored[i].db_name],
                                        "paii_raw")
           paii_data == convert_data(args.data, args.fields)
       IN  ret' = [insert_sql |-> insert_sql, paii_data |-> paii_data,
                   paii_values |-> DictValues(paii_data)]
    /\ UNCHANGED <<conveyorVars, args, calls, client, pollerVars>>

FieldsNext == insert_row

FieldsSpec == FieldsInit /\ [][FieldsNext]_vars

\* ---- scripts/paii_poll.py: loop_time ------------------------------------------
\* loop_time(loop_interval, min_window, t_now) of the legacy poller (the same
\* function is in paii/purple_device.py)
poll_loop_time(interval, min_window, t_now) ==
    LET t0 == (t_now \div interval) * interval
    IN  IF t_now > t0 - min_window THEN t0 + interval ELSE t0

\* Any interval, a window shorter than the interval, any clock.
PollInit ==
    /\ Idle
    /\ \E i \in 1..MaxInterval, w \in 0..MaxWindow, n \in Nows :
           /\ w < i
           /\ args = [fn |-> "loop_time", loop_interval |-> i,
                      min_window |-> w, t_now |-> n]
    /\ ret = NoReturn
    /\ calls = <<>>
    /\ client = NoClient
    /\ NoPoller

\* t_next = loop_time(loop_interval, min_window, t_now)
poll_loop_time_call ==
    /\ args.fn = "loop_time"
    /\ ret = NoReturn
    /\ ret' = [value |-> poll_loop_time(args.loop_interval, args.min_window,
                                        args.t_now)]
    /\ UNCHANGED <<conveyorVars, args, calls, client, pollerVars>>

PollNext == poll_loop_time_call

PollSpec == PollInit /\ [][PollNext]_vars

\* ---- paii/paii_poll.py: the poller ------------------------------------------
\* The program runs one conveyor with its own callables: produce, then
\* consume_postgres (with --host) or consume_terminal, then with --mq-host
\* MqttConsumer.consume.  It never calls stop().  A payload is the dict of the
\* device's JSON, here the number PayloadOf(event), or None.  The wall clock
\* is left alone here, so no tick is found to have passed.
NonePayload == -1
MqttPlace == 2

\* amain: the consumers list
ConsumerKind(c) ==
    IF c = 1 THEN (IF args.host THEN "consume_postgres" ELSE "consume_terminal")
    ELSE IF c = MqttPlace THEN "MqttConsumer.consume"
    ELSE "consume_terminal"

\* get_args, as far as the consumers go: --host given or not, --mq-host
\* given, --mq-downsample any int.
PaiiInit ==
    /\ Idle
    /\ \E h \in BOOLEAN, d \in 0..MaxMqDownsample :
           args = [fn |-> "amain", host |-> h, mq_downsample |-> d]
    /\ ret = NoReturn
    /\ calls = <<>>
    /\ client = NoClient
    /\ NoPoller

\* produce: the response decoded and updated, or, on any exception of the
\* request or of response.json(), the exception logged and None
produce_result(http_ok, e) == IF http_ok THEN PayloadOf(e) ELSE NonePayload

\* production_scheduler with produce of paii_poll.py: the call returns, the
\* pair is put on the queue and the next event is asked for.
produce(http_ok) ==
    /\ LoopFree
    /\ prodPc = "produce"
    /\ ~QueueFull(queue)
    /\ queue' = QueuePut(queue, [event |-> event,
                                 payload |-> produce_result(http_ok, event)])
    /\ enqueued' = Append(enqueued, [event |-> event,
                                     payload |-> produce_result(http_ok, event)])
    /\ loop_counter' = NextCounter(loop_counter)
    /\ prodPc' = "loop_time"
    /\ UNCHANGED <<flagVars, configVars, utilVars,
                   callerVars, launcherPc, wall, t_event,
                   event, prodTimer, consVars, wdVars, emitted, dequeued,
                   ninvoked, skipped, waiting, prodFailedAt, consFailedAt,
                   stopAge, nadjust, errVars, ticks, requested>>

\* consumer_loop: the task of consumer c returns res
TaskReturns(c, res) ==
    /\ LoopFree
    /\ cons_tasks[c].st = "pending"
    /\ cons_tasks' = [cons_tasks EXCEPT ![c].st = "done", ![c].res = res]
    /\ doneOrder' = Append(doneOrder, c)
    /\ UNCHANGED <<flagVars, configVars,
                   callerVars, launcherPc, wall, prodVars,
                   queue, consPc, item, results, wdVars, histVars, stopAge,
                   nadjust, errVars, ticks, requested>>

\* consumer_loop: the task of consumer c raises
TaskRaises(c) ==
    /\ LoopFree
    /\ cons_tasks[c].st = "pending"
    /\ cons_tasks' = FailTask(cons_tasks, c)
    /\ consPc' = AfterConsumerRaise(consPc)
    /\ consFailedAt' = IF consPc = "gather" THEN Len(dequeued) ELSE consFailedAt
    /\ exceptions' = exceptions \cup {Exception("consumer", c)}
    /\ ex' = IF consPc = "gather"
             THEN FirstException(ex, Exception("consumer", c))
             ELSE ex
    /\ UNCHANGED <<flagVars, configVars,
                   callerVars, launcherPc, wall, prodVars,
                   queue, item, doneOrder, results, wdVars, emitted, enqueued,
                   dequeued, ninvoked, skipped, waiting, prodFailedAt, stopAge,
                   nadjust, log, ticks, requested>>

\* consume_terminal: print(event, payload); return 0
consume_terminal(c) ==
    /\ ConsumerKind(c) = "consume_terminal"
    /\ TaskReturns(c, 0)
    /\ UNCHANGED utilVars

\* convert_data(payload): payload[f.name] for each stored field, a TypeError
\* when payload is None
convert_data_raises(payload) == payload = NonePayload

\* consume_postgres: get_connection, convert_data(payload), conn.execute;
\* db_ok says whether the connection and the insert succeed
consume_postgres(c, db_ok) ==
    /\ ConsumerKind(c) = "consume_postgres"
    /\ IF db_ok /\ ~convert_data_raises(cons_tasks[c].payload)
       THEN TaskReturns(c, 0)
       ELSE TaskRaises(c)
    /\ UNCHANGED utilVars

\* faulty variant: the client is made for no event
NeedsClient_Never(counter) == FALSE

\* MqttConsumer.consume: if event.loop_counter < 1
NeedsClient(counter) == counter < 1

\* MqttConsumer.consume up to the end of await self.start_client(): the
\* client is created, and connected unless connect() raises.
start_client(c, connect_ok) ==
    /\ ConsumerKind(c) = "MqttConsumer.consume"
    /\ cons_tasks[c].st = "pending"
    /\ NeedsClient(cons_tasks[c].event.loop_counter)
    /\ client.loop_counter # cons_tasks[c].event.loop_counter
    /\ IF connect_ok
       THEN /\ client' = [state |-> "connected",
                          loop_counter |-> cons_tasks[c].event.loop_counter]
            /\ calls' = Append(calls, [fn |-> "start_client",
                                       loop_counter |-> cons_tasks[c].event.loop_counter])
            /\ LoopFree
            /\ UNCHANGED conveyorVars
       ELSE /\ client' = [state |-> "created",
                          loop_counter |-> cons_tasks[c].event.loop_counter]
            /\ TaskRaises(c)
            /\ UNCHANGED calls
    /\ UNCHANGED <<args, ret, pollerVars>>

\* MqttConsumer.consume after that: the remainder, the payload's keys, publish.
\* publish raises on a client that is not connected; payload[k] is a
\* TypeError when payload is None.
MqttConsumer_consume(c, publish_ok) ==
    /\ ConsumerKind(c) = "MqttConsumer.consume"
    /\ cons_tasks[c].st = "pending"
    /\ NeedsClient(cons_tasks[c].event.loop_counter) =>
           client.loop_counter = cons_tasks[c].event.loop_counter
    /\ LET e == cons_tasks[c].event
           r == consume(args.mq_downsample, e,
                        publish_ok /\ client.state = "connected")
           type_error == r.publish /\ cons_tasks[c].payload = NonePayload
       IN  /\ IF type_error \/ "raised" \in DOMAIN r.ret
              THEN TaskRaises(c)
              ELSE TaskReturns(c, r.ret.value)
           /\ calls' = IF r.publish /\ ~type_error
                       THEN Append(calls, [fn |-> "publish",
                                           loop_counter |-> e.loop_counter])
                       ELSE calls
    /\ UNCHANGED <<args, ret, client, pollerVars>>

PaiiNext ==
    \/ start_thread
    \/ start_return
    \/ launcher_start
    \/ launcher_finish
    \/ loop_generator
    \/ event_generator
    \/ yield_event
    \/ \E http_ok \in BOOLEAN : produce(http_ok)
    \/ consumer_get
    \/ \E c \in Consumers : consume_terminal(c)
    \/ \E c \in Consumers, db_ok \in BOOLEAN : consume_postgres(c, db_ok)
    \/ \E c \in Consumers, connect_ok \in BOOLEAN : start_client(c, connect_ok)
    \/ \E c \in Consumers, publish_ok \in BOOLEAN : MqttConsumer_consume(c, publish_ok)
    \/ consumer_join
    \/ watchdog
    \/ Tick

\* The poller, with the loop of the worker thread scheduled fairly.
PaiiSpec ==
    /\ PaiiInit
    /\ [][PaiiNext]_vars
    /\ WF_vars(launcher_start)
    /\ WF_vars(launcher_finish)
    /\ WF_vars(loop_generator)
    /\ WF_vars(event_generator)

\* ---- scripts/paii_poll.py: main (the same loop is in paii/purple_device.py) --
\* A datetime is the reading of its fields, as seconds, and its tzinfo.
\* datetime.fromtimestamp(t, tz=timezone.utc)
fromtimestamp(t, tz) == [t |-> t, tzinfo |-> tz]

\* faulty variant: the fields are converted to the zone, as astimezone does
replace_tzinfo_Convert(dt, tz) == [t |-> dt.t + 1, tzinfo |-> tz]

\* datetime.replace(tzinfo=tz): the fields are kept
replace_tzinfo(dt, tz) == [dt EXCEPT !.tzinfo = tz]

\* main: dt_next of t_next, the naive time handed to the scheduler
NaiveUtc(t) == replace_tzinfo(fromtimestamp(t, "utc"), "None")

\* class Msg
Msg(msg_type, payload) == [msg_type |-> msg_type, payload |-> payload]

\* main: {opt.time_field: dt_next.replace(tzinfo=timezone.utc)}
TimeEntry(dt) == [paii_time |-> replace_tzinfo(dt, "utc")]

\* TimedScheduler.schedule(worker(), dt_next): the coroutine is run at dt_next
Schedule(poll, dt) == [poll |-> poll, when |-> dt, st |-> "scheduled", dargs |-> <<>>]

\* The process is running main's loop or the preparation before it.
Polling == mainPc \in {"prepare", "get", "execute"}

\* main up to the first scheduler.schedule(): the queues are made, the first
\* poll time is computed, its entry is pushed and the run is scheduled; main
\* then prepares the database.
LegacyInit ==
    /\ Idle
    /\ \E i \in {MaxInterval - 2, MaxInterval}, w \in 0..MaxWindow :
           args = [fn |-> "main", loop_interval |-> i, min_window |-> w]
    /\ ret = NoReturn
    /\ calls = <<>>
    /\ client = NoClient
    /\ now \in 0..MaxWindow
    /\ mainPc = "prepare"
    /\ drain = FALSE
    /\ msg = NoMsg
    /\ dt_next = NaiveUtc(poll_loop_time(args.loop_interval, args.min_window, now))
    /\ task_next = Schedule(1, dt_next)
    /\ input_queue = <<TimeEntry(dt_next)>>
    /\ result_queue = <<>>
    /\ inserted = <<>>
    /\ scheduled = <<dt_next>>
    /\ nsignal = 0

\* sig_handler: result_queue.put_nowait(Msg(MessageType.SIGNAL, ...))
sig_handler(signum) ==
    /\ Polling
    /\ nsignal < MaxSignals
    /\ result_queue' = QueuePut(result_queue, Msg("SIGNAL", [signal |-> signum]))
    /\ nsignal' = nsignal + 1
    /\ UNCHANGED <<conveyorVars, args, ret, calls, client, now, mainPc, drain,
                   msg, dt_next, task_next, input_queue, inserted, scheduled>>

\* main: the table is created and insert_sql composed; the loop begins
main_prepared ==
    /\ mainPc = "prepare"
    /\ mainPc' = "get"
    /\ UNCHANGED <<conveyorVars, args, ret, calls, client, now, drain, msg,
                   dt_next, task_next, input_queue, result_queue, inserted,
                   scheduled, nsignal>>

\* TimedScheduler.cancel(task): a run that has not begun is taken off the
\* schedule; one that has begun is left to run or is cancelled with it.
Cancel(task, stops) ==
    IF task.st = "scheduled" \/ (task.st = "running" /\ stops)
    THEN [task EXCEPT !.st = "cancelled"]
    ELSE task

\* main: msg = await result_queue.get() with a SIGNAL: drain = True,
\* scheduler.cancel(task_next), continue
main_get_signal ==
    /\ mainPc = "get"
    /\ result_queue # <<>>
    /\ QueueGet(result_queue).msg_type = "SIGNAL"
    /\ msg' = QueueGet(result_queue)
    /\ result_queue' = QueueRest(result_queue)
    /\ drain' = TRUE
    /\ \E stops \in BOOLEAN : task_next' = Cancel(task_next, stops)
    /\ UNCHANGED <<conveyorVars, args, ret, calls, client, now, mainPc,
                   dt_next, input_queue, inserted, scheduled, nsignal>>

\* main: msg = await result_queue.get() with a DATA message: convert_data and
\* await conn.execute
main_get_data ==
    /\ mainPc = "get"
    /\ result_queue # <<>>
    /\ QueueGet(result_queue).msg_type = "DATA"
    /\ msg' = QueueGet(result_queue)
    /\ result_queue' = QueueRest(result_queue)
    /\ mainPc' = "execute"
    /\ UNCHANGED <<conveyorVars, args, ret, calls, client, now, drain,
                   dt_next, task_next, input_queue, inserted, scheduled,
                   nsignal>>

\* main: conn.execute has inserted the record; with drain the loop is left,
\* else the next poll time is computed from time(), its entry is pushed on
\* input_queue and the run is scheduled
main_executed ==
    /\ mainPc = "execute"
    /\ inserted' = Append(inserted, msg.payload)
    /\ IF drain
       THEN /\ mainPc' = "exit"
            /\ UNCHANGED <<dt_next, task_next, input_queue, scheduled>>
       ELSE /\ Len(scheduled) < MaxPolls
            /\ mainPc' = "get"
            /\ dt_next' = NaiveUtc(poll_loop_time(args.loop_interval,
                                                  args.min_window, now))
            /\ input_queue' = QueuePut(input_queue, TimeEntry(dt_next'))
            /\ task_next' = Schedule(Len(scheduled) + 1, dt_next')
            /\ scheduled' = Append(scheduled, dt_next')
    /\ UNCHANGED <<conveyorVars, args, ret, calls, client, now, drain, msg,
                   result_queue, nsignal>>

\* main: conn.execute raises; main ends with the exception
main_execute_raises ==
    /\ mainPc = "execute"
    /\ mainPc' = "raised"
    /\ UNCHANGED <<conveyorVars, args, ret, calls, client, now, drain, msg,
                   dt_next, task_next, input_queue, result_queue, inserted,
                   scheduled, nsignal>>

\* The scheduler starts a run whose time has come.
Due(task) == task.st = "scheduled" /\ task.when.t <= now

\* device_reader up to session.get: dargs = input_queue.get_nowait(), which
\* raises QueueEmpty on an empty queue
device_reader_start ==
    /\ Polling
    /\ Due(task_next)
    /\ IF input_queue = <<>>
       THEN /\ task_next' = [task_next EXCEPT !.st = "QueueEmpty"]
            /\ UNCHANGED input_queue
       ELSE /\ task_next' = [task_next EXCEPT !.st = "running",
                                              !.dargs = QueueGet(input_queue)]
            /\ input_queue' = QueueRest(input_queue)
    /\ UNCHANGED <<conveyorVars, args, ret, calls, client, now, mainPc, drain,
                   msg, dt_next, result_queue, inserted, scheduled, nsignal>>

\* jresp.update(dargs): the device's values (here, which poll they are of)
\* with the entries of dargs
update(jresp, dargs) == [poll |-> jresp.poll, paii_time |-> dargs.paii_time]

\* device_reader: the response is decoded, updated and put on result_queue
device_reader_return ==
    /\ Polling
    /\ task_next.st = "running"
    /\ result_queue' = QueuePut(result_queue,
                                Msg("DATA", update([poll |-> task_next.poll],
                                                   task_next.dargs)))
    /\ task_next' = [task_next EXCEPT !.st = "done"]
    /\ UNCHANGED <<conveyorVars, args, ret, calls, client, now, mainPc, drain,
                   msg, dt_next, input_queue, inserted, scheduled, nsignal>>

\* device_reader: session.get or response.json() raises; nothing is queued
device_reader_raises ==
    /\ Polling
    /\ task_next.st = "running"
    /\ task_next' = [task_next EXCEPT !.st = "raised"]
    /\ UNCHANGED <<conveyorVars, args, ret, calls, client, now, mainPc, drain,
                   msg, dt_next, input_queue, result_queue, inserted,
                   scheduled, nsignal>>

\* A second passes; a run that is due is started first.
poller_tick ==
    /\ Polling
    /\ ~Due(task_next)
    /\ now < MaxTime
    /\ now' = now + 1
    /\ UNCHANGED <<conveyorVars, args, ret, calls, client, mainPc, drain, msg,
                   dt_next, task_next, input_queue, result_queue, inserted,
                   scheduled, nsignal>>

LegacyNext ==
    \/ \E signum \in {2, 15} : sig_handler(signum)
    \/ main_prepared
    \/ main_get_signal
    \/ main_get_data
    \/ main_executed
    \/ main_execute_raises
    \/ device_reader_start
    \/ device_reader_return
    \/ device_reader_raises
    \/ poller_tick

\* The legacy poller; main and the scheduler's runs take their steps, and a
\* request to the device comes to an end.
LegacySpec ==
    /\ LegacyInit
    /\ [][LegacyNext]_vars
    /\ WF_vars(main_prepared)
    /\ WF_vars(main_get_signal)
    /\ WF_vars(main_get_data)
    /\ WF_vars(main_executed \/ main_execute_raises)
    /\ WF_vars(device_reader_start)
    /\ WF_vars(device_reader_return \/ device_reader_raises)

\* ---- C1 --------------------------------------------------------------------
\* C1: running is a faithful liveness flag: once start() has returned, running
\* is true while the pipeline is active and false once it has terminated.
C1_RunningFaithful ==
    callerPc = "started" =>
        /\ Active => running
        /\ launcherPc = "done" => ~running

\* ---- C2 --------------------------------------------------------------------
\* C2: once more than one watchdog interval (1.5 s) has passed since stop() was
\* called on a started conveyor, running is false.
C2_StopLatency == stopAge > WatchdogInterval => ~running

\* ---- C3 --------------------------------------------------------------------
\* The producer raised on event n: its task has ended, nothing was enqueued
\* for event n and no event after n was emitted.
ProducerFailFast ==
    prodFailedAt >= 0 =>
        /\ prodPc = "raised"
        /\ \A i \in 1..Len(enqueued) : enqueued[i].event.loop_counter # prodFailedAt
        /\ \A i \in 1..Len(emitted) : emitted[i].loop_counter <= prodFailedAt

\* C3: if the producer raises on the event with loop_counter n, the Production
\* Stage ends without retry, nothing is enqueued for event n, no later event is
\* produced, and running becomes false.
C3_ProducerFailFast ==
    /\ []ProducerFailFast
    /\ (prodPc = "raised" /\ Active) ~> (launcherPc = "done" /\ ~running)

C3_Witness ==
    /\ prodFailedAt >= 1
    /\ Len(enqueued) = prodFailedAt
    /\ launcherPc = "done"
    /\ ~running

\* ---- C4 --------------------------------------------------------------------
\* A consumer raised while the k-th dequeued item was processed: consumer_loop
\* has ended, and no later item was dequeued or handed to any consumer.
ConsumerFailFatal ==
    consFailedAt >= 0 =>
        /\ consPc = "raised"
        /\ Len(dequeued) = consFailedAt
        /\ \A c \in Consumers : ninvoked[c] = consFailedAt

\* C4: if a consumer raises while a queue item is processed, the join raises at
\* that first failure, the Consumption Stage ends so that no later item is
\* dequeued or delivered, and running becomes false.
C4_ConsumerFailFatal ==
    /\ []ConsumerFailFatal
    /\ (consPc = "raised" /\ Active) ~> (launcherPc = "done" /\ ~running)

C4_Witness ==
    /\ consFailedAt >= 1
    /\ queue # <<>>
    /\ launcherPc = "done"
    /\ ~running

\* ---- C5 --------------------------------------------------------------------
\* C5: the n-th item dequeued is the n-th item enqueued, so the consumers see
\* the items in increasing loop_counter order.
C5_QueueFifo ==
    /\ Len(dequeued) <= Len(enqueued)
    /\ \A n \in 1..Len(dequeued) : dequeued[n] = enqueued[n]
    /\ \A m, n \in 1..Len(dequeued) :
           m < n => dequeued[m].event.loop_counter < dequeued[n].event.loop_counter

C5_Witness == waiting >= 2 /\ Len(dequeued) >= 2

\* ---- C6 --------------------------------------------------------------------
\* C6 as stated: every enqueued item is dequeued and delivered exactly once, so
\* when the pipeline has ended none is left undelivered.
C6_ExactlyOnce ==
    launcherPc = "done" =>
        /\ queue = <<>>
        /\ dequeued = enqueued
        /\ \A c \in Consumers : ninvoked[c] = Len(enqueued)

\* C6 amended: every enqueued item is dequeued and delivered to each consumer
\* at most once, never twice; an item not yet dequeued is still in the queue,
\* where it stays undelivered if the pipeline ends first.
C6_AtMostOnce ==
    /\ \A m, n \in 1..Len(dequeued) : m # n => dequeued[m] # dequeued[n]
    /\ \A c \in Consumers : ninvoked[c] = Len(dequeued)
    /\ Len(dequeued) + Len(queue) = Len(enqueued)
    /\ \A n \in 1..Len(queue) : \E m \in 1..Len(enqueued) : queue[n] = enqueued[m]

C6_Witness ==
    /\ launcherPc = "done"
    /\ Len(dequeued) >= 1
    /\ queue # <<>>

\* ---- C7 --------------------------------------------------------------------
\* Each consumer has been called once per dequeued item, with that item.
FanOutArgs ==
    /\ \A c \in Consumers : ninvoked[c] = Len(dequeued)
    /\ Len(dequeued) > 0 =>
           /\ item = dequeued[Len(dequeued)]
           /\ \A c \in Consumers :
                  /\ cons_tasks[c].event = item.event
                  /\ cons_tasks[c].payload = item.payload

\* The join yields one result per consumer, the c-th from the c-th consumer.
JoinInOrder ==
    consumer_join =>
        /\ Len(results') = NumConsumers
        /\ \A c \in Consumers : results'[c] = ResultOf(c, item.event, item.payload)

\* C7: for every dequeued item each of the k consumers is called exactly once
\* with the same (event, payload), and when all succeed the joined list has
\* length k with the i-th result from the i-th registered consumer, whatever
\* order the consumers finish in.
C7_FanOut == []FanOutArgs /\ [][JoinInOrder]_vars

C7_Witness ==
    /\ consPc = "get"
    /\ Len(results) = NumConsumers
    /\ Len(doneOrder) = NumConsumers
    /\ doneOrder[1] # 1
    /\ \A c \in Consumers : results[c] = c

\* ---- C8 --------------------------------------------------------------------
\* C8: no item is dequeued, and so no consumer call for it started, while a
\* consumer call for the item before it is still running, even when further
\* items wait in the queue.
C8_JoinBeforeNext ==
    [][Len(dequeued') > Len(dequeued) =>
          \A c \in Consumers : cons_tasks[c].st # "pending"]_vars

C8_Witness ==
    /\ Len(dequeued) >= 2
    /\ waiting >= 2
    /\ \E c \in Consumers : cons_tasks[c].st = "pending"

\* ---- C9 --------------------------------------------------------------------
\* The i-th event emitted carries loop_counter i - 1.
CounterNoGaps == \A i \in 1..Len(emitted) : emitted[i].loop_counter = i - 1

\* A skipped tick emits no event and leaves the counter alone.
SkipKeepsCounter ==
    skipped' # skipped => loop_counter' = loop_counter /\ emitted' = emitted

\* C9: the loop_counter of successive emitted events starts at 0 and goes up by
\* exactly 1; a skipped tick emits no event and does not advance the counter.
C9_CounterSequence == []CounterNoGaps /\ [][SkipKeepsCounter]_vars

C9_Witness ==
    /\ Len(emitted) >= 2
    /\ \E t \in skipped :
           /\ emitted[Len(emitted) - 1].event_time < t
           /\ t < emitted[Len(emitted)].event_time

\* ---- C10 -------------------------------------------------------------------
\* C10: events are emitted in strictly increasing event_time order, whatever
\* the wall clock does.
C10_EventTimeIncreasing ==
    \A i, j \in 1..Len(emitted) :
        i < j => emitted[i].event_time < emitted[j].event_time

C14_LateTickProcessed ==
    nadjust = 0 =>
        \A i \in 1..(Len(emitted) - 1) :
            emitted[i + 1].event_time = emitted[i].event_time + loop_interval

\* loop_generator takes the earliest grid point after the clock as it reads it.
TickAfterClock ==
    (prodPc = "loop_time" /\ prodPc' = "delta") =>
        /\ wall < t_event'
        /\ t_event' <= wall + loop_interval

\* No tick is computed while a producer call is in flight.
NoTickWhileProducing == (Active /\ prodPc = "produce") => t_event' = t_event

\* No Event is created for a tick that the clock has passed.
NoLateEvent == (event' # event /\ event' # NoEvent) => event'.event_time >= wall

\* C14 amended: a producer call that outlives the next scheduled tick causes
\* that tick to be dropped, not processed late: no tick is computed while the
\* call is in flight, and once it returns the Event Sequence takes the
\* earliest grid point after the clock as it then reads it, so that no Event is
\* created for a tick that reading has passed.
C14_MissedTickDropped ==
    /\ [][TickAfterClock]_vars
    /\ [][NoTickWhileProducing]_vars
    /\ [][NoLateEvent]_vars

\* the clock left alone, two events in a row with a grid point left out
C14_Witness ==
    /\ nadjust = 0
    /\ Len(emitted) >= 2
    /\ emitted[Len(emitted)].event_time
           >= emitted[Len(emitted) - 1].event_time + 2 * loop_interval

\* ---- C15 -------------------------------------------------------------------
\* C15: Stopped is terminal: once the pipeline has terminated, a further call
\* of start() on the same instance makes no stage run again and does not make
\* running true again.
C15_StoppedTerminal ==
    nstart > 1 =>
        /\ ~Active
        /\ callerPc = "started" => ~running

\* ---- C16 -------------------------------------------------------------------
\* One of the three stages has ended.  Each stage is an endless loop, so a
\* stage ends only by raising.
StageEnded == prodPc = "raised" \/ consPc = "raised" \/ wdPc = "raised"

\* No time passes between the end of a stage and the end of the wait.
WaitEndsAtOnce == (Active /\ StageEnded) => ~Tick

\* The end of the wait leaves the other stages and their calls as they are.
StagesLeftAlone ==
    (launcherPc = "gather" /\ launcherPc' = "done") =>
        /\ prodPc' = prodPc
        /\ consPc' = consPc
        /\ wdPc' = wdPc
        /\ cons_tasks' = cons_tasks
        /\ queue' = queue

NoStageFailure == prodPc # "raised" /\ consPc # "raised"

\* running goes from true to false only when a stage has failed or the
\* watchdog has raised on stopped.
RunningClearedByWatchdog ==
    (running /\ ~running') =>
        \/ ~NoStageFailure
        \/ wdPc = "raised" /\ stopped

\* C17: the watchdog is the only cancellation path: if the producer and the
\* consumers never raise, the pipeline ends, and running becomes false, only
\* after the watchdog has seen stopped at one of its polls; a started conveyor
\* on which stop() is never called stays active.
C17_WatchdogOnlyPath ==
    /\ []((launcherPc = "done" /\ NoStageFailure) => (wdPc = "raised" /\ stopped))
    /\ []((~stopped /\ NoStageFailure) => (launcherPc # "done" /\ wdPc # "raised"))
    /\ [][RunningClearedByWatchdog]_vars

\* ended by the watchdog after stop(), with events emitted and no failure
C17_Witness ==
    /\ launcherPc = "done"
    /\ NoStageFailure
    /\ wdPc = "raised"
    /\ stopped
    /\ ~running
    /\ Len(emitted) >= 2

\* ---- C18 -------------------------------------------------------------------
\* A tick found to be in the past is skipped: the Event Sequence goes to its
\* grace sleep and nothing else changes; no stage ends, no exception is
\* raised, the Supervisor is not reached and running is left alone.
SkipIsLocal ==
    (Active /\ prodPc = "delta" /\ prodPc' # "delta" /\ t_event - wall < 0) =>
        /\ prodPc' = "grace"
        /\ prodTimer' = GraceSleep
        /\ consPc' = consPc
        /\ wdPc' = wdPc
        /\ launcherPc' = launcherPc
        /\ running' = running
        /\ exceptions' = exceptions
        /\ ex' = ex
        /\ log' = log

\* After the grace sleep the tick is computed anew.
GraceThenRecompute ==
    (Active /\ prodPc = "grace" /\ prodPc' # "grace") =>
        /\ prodTimer = 0
        /\ prodPc' = "loop_time"

\* C18: ClockSkew is recovered locally and never surfaced: when the computed
\* tick is already in the past (delta < 0) the Event Sequence waits the grace
\* period and recomputes the tick, and the skip ends no stage, does not reach
\* the Supervisor and does not change running.
C18_ClockSkewLocal == [][SkipIsLocal]_vars /\ [][GraceThenRecompute]_vars

\* after a skipped tick the pipeline runs on and waits for a later tick
C18_Witness ==
    /\ Active
    /\ running
    /\ exceptions = {}
    /\ prodPc = "sleep"
    /\ \E t \in skipped : t < event.event_time

\* ---- C19 -------------------------------------------------------------------
\* The producer is called once per emitted event, in loop_counter order, one
\* call at a time: the events emitted are those enqueued, each with its own
\* payload, but for the one whose call is in flight or has failed.
ProductionSequential ==
    /\ Len(enqueued) <= Len(emitted)
    /\ Len(emitted) <= Len(enqueued) + 1
    /\ \A i \in 1..Len(emitted) : emitted[i].loop_counter = i - 1
    /\ \A i \in 1..Len(enqueued) :
           /\ enqueued[i].event = emitted[i]
           /\ enqueued[i].payload = PayloadOf(emitted[i])
    /\ prodPc \in {"produce", "raised"} <=> Len(emitted) = Len(enqueued) + 1

\* A call that returns puts exactly one pair on the queue: its event with the
\* payload it returned.
EnqueueOne ==
    Len(enqueued') > Len(enqueued) =>
        /\ prodPc = "produce"
        /\ Len(enqueued') = Len(enqueued) + 1
        /\ queue' = Append(queue, [event |-> emitted[Len(emitted)],
                                   payload |-> PayloadOf(emitted[Len(emitted)])])

\* The next tick is computed only when every emitted event has been enqueued.
NextAfterEnqueue ==
    (prodPc = "loop_time" /\ prodPc' = "delta") => Len(enqueued) = Len(emitted)

\* C19: the Production Stage is strictly sequential and never retries: the
\* producer is invoked exactly once per emitted event in loop_counter order,
\* at most one call is in flight, each successful call enqueues exactly one
\* (event, payload) pairing the event with its own payload, and the next event
\* is not requested before that enqueue.
C19_SequentialProduction ==
    /\ []ProductionSequential
    /\ [][EnqueueOne]_vars
    /\ [][NextAfterEnqueue]_vars

\* two events enqueued and the call for the third in flight
C19_Witness ==
    /\ Len(enqueued) >= 2
    /\ Len(emitted) = Len(enqueued) + 1
    /\ prodPc = "produce"

\* ---- C20 -------------------------------------------------------------------
\* C20: no terminal error is silently swallowed: when the pipeline has ended,
\* every exception raised by the producer or by a consumer has been reported
\* by the Supervisor.
C20_AllErrorsReported ==
    launcherPc = "done" =>
        \A e \in exceptions : e.stage \in {"producer", "consumer"} => e \in log

\* ---- C21 -------------------------------------------------------------------
\* A step that sets stopped changes nothing else of the conveyor: not running,
\* not the queue, not the position or the data of any stage, and no time
\* passes in it.
StopOnlySetsFlag ==
    stopped' # stopped =>
        /\ stopped'
        /\ running' = running
        /\ queue' = queue
        /\ launcherPc' = launcherPc
        /\ prodVars' = prodVars
        /\ consVars' = consVars
        /\ wdVars' = wdVars
        /\ errVars' = errVars
        /\ callerPc' = callerPc
        /\ wall' = wall

\* C21: stop() only sets stopped = true and returns without waiting for the
\* shutdown: it leaves running, the queue and every stage unchanged, so running
\* may still be true immediately after stop() returns.
C21_StopOnlySetsFlag == [][StopOnlySetsFlag]_vars

\* stop() has just returned on a pipeline at work: running is still true and
\* the stages are where they were
C21_Witness ==
    /\ stopped
    /\ stopAge = 0
    /\ running
    /\ Active
    /\ wdPc = "sleep"
    /\ wdTimer > 0
    /\ Len(emitted) >= 1
    /\ queue # <<>>

\* ---- C22 -------------------------------------------------------------------
\* C22: get_syslog_handler_args returns None when host is None whatever the
\* port, and for a host starting with "/dev" returns exactly {address: host}
\* with no socktype, whatever the port argument (a None port and a "520/tcp"
\* port included).
C22_NoneAndUnixSocket ==
    ret # NoReturn =>
        /\ args.host = None => ret = [kind |-> "None"]
        /\ (args.host # None /\ startswith(args.host, Str_dev)) =>
               /\ DOMAIN ret = {"address"}
               /\ ret.address = args.host

\* the unix socket /dev/log with the port "520/tcp"
C22_Witness ==
    /\ args.fn = "get_syslog_handler_args"
    /\ args.host = Str_dev_log
    /\ args.port = Str_520_tcp
    /\ DOMAIN ret = {"address"}

\* ---- C23 -------------------------------------------------------------------
\* The host is a network host: a str that does not start with "/dev".
NetworkHost(host) == host # None /\ ~startswith(host, Str_dev)

\* The places of the "/" characters in a port.
Slashes(port) == {i \in 1..Len(port) : port[i] = "/"}

\* The part of a port before any "/".
BeforeSlash(port) ==
    IF Slashes(port) = {} THEN port
    ELSE SubSeq(port, 1, (CHOOSE i \in Slashes(port) :
                              \A j \in Slashes(port) : i <= j) - 1)

\* The part of a port after its "/": after the last one where there are more.
AfterSlash(port) ==
    SubSeq(port, (CHOOSE i \in Slashes(port) :
                      \A j \in Slashes(port) : i >= j) + 1, Len(port))

\* The port given, or the default of the parameter.
GivenPort == IF args.port = Omitted THEN Str_514 ELSE args.port

\* C23: for a network host, get_syslog_handler_args returns address (host, N)
\* where N is the integer before any "/" in port (514 when port is omitted)
\* and socktype SOCK_STREAM exactly when the part after "/" is "tcp", else
\* SOCK_DGRAM (udp is the default when no protocol is given).
C23_NetworkHost ==
    (ret # NoReturn /\ NetworkHost(args.host) /\ args.port # None
       /\ IsInt(BeforeSlash(GivenPort))) =>
        /\ DOMAIN ret = {"address", "socktype"}
        /\ ret.address = <<args.host, int(BeforeSlash(GivenPort))>>
        /\ ret.socktype = IF Slashes(GivenPort) # {}
                               /\ AfterSlash(GivenPort) = Str_tcp
                          THEN SOCK_STREAM
                          ELSE SOCK_DGRAM
        /\ args.port = Omitted =>
               ret = [address |-> <<args.host, 514>>, socktype |-> SOCK_DGRAM]
        /\ args.port = Str_520 =>
               ret = [address |-> <<args.host, 520>>, socktype |-> SOCK_DGRAM]
        /\ args.port = Str_520_udp =>
               ret = [address |-> <<args.host, 520>>, socktype |-> SOCK_DGRAM]
        /\ args.port = Str_520_tcp =>
               ret = [address |-> <<args.host, 520>>, socktype |-> SOCK_STREAM]

\* logger.example.com with the port "520/tcp"
C23_Witness ==
    /\ args.fn = "get_syslog_handler_args"
    /\ args.host = Str_logger
    /\ args.port = Str_520_tcp
    /\ ret = [address |-> <<Str_logger, 520>>, socktype |-> SOCK_STREAM]

\* ---- C24 -------------------------------------------------------------------
\* The loop_counter is a multiple of d.
MultipleOf(counter, d) == \E k \in 0..counter : counter = k * d

StoredPlaces(fields) == {i \in 1..Len(fields) : fields[i].store_flag}

\* The k-th stored entry of the field list, in list order.
StoredAt(fields, k) ==
    fields[CHOOSE i \in StoredPlaces(fields) :
               Cardinality({j \in StoredPlaces(fields) : j <= i}) = k]

\* C25: convert_data returns exactly one entry per stored field (store_flag
\* true), keyed by db_name, in field-list order, with the field's convert
\* function applied where there is one; that order is the order of the column
\* list and of the placeholders $1..$n that compose_insert builds from
\* gen_stored(), so that the i-th value binds to the i-th column and there are
\* as many values as placeholders.
C25_ValuesMatchColumns ==
    (args.fn = "convert_data" /\ ret # NoReturn) =>
        LET n == Cardinality(StoredPlaces(args.fields))
        IN  /\ Len(ret.paii_data) = n
            /\ Len(ret.insert_sql.fields) = n
            /\ Len(ret.insert_sql.placeholders) = n
            /\ Len(ret.paii_values) = n
            /\ \A k \in 1..n :
                   LET f == StoredAt(args.fields, k)
                   IN  /\ ret.paii_data[k].key = f.db_name
                       /\ ret.insert_sql.fields[k] = f.db_name
                       /\ ret.insert_sql.placeholders[k] = k
                       /\ ret.paii_values[k] = ret.paii_data[k].value
                       /\ f.convert = "none" =>
                              ret.paii_values[k] = 100 * args.data[f.json_key]
                       /\ (f.json_key = "current_temp_f"
                             /\ args.data[f.json_key] = 52) =>
                              ret.paii_values[k] = 1111
                       /\ (f.json_key = "current_temp_f"
                             /\ args.data[f.json_key] = 0) =>
                              ret.paii_values[k] = -1778

\* a converted field first, a field that is not stored, then the time field
C25_Witness ==
    /\ args.fn = "convert_data"
    /\ ret # NoReturn
    /\ Len(args.fields) = 3
    /\ args.fields[1].json_key = "current_temp_f"
    /\ ~args.fields[2].store_flag
    /\ args.fields[3].json_key = "paii_time"
    /\ ret.insert_sql.fields = <<"current_temp_c", "paii_time">>
    /\ ret.insert_sql.placeholders = <<1, 2>>
    /\ ret.paii_values = <<1111, 159800>>

\* ---- C26 -------------------------------------------------------------------
\* C26: the legacy poller's loop_time(loop_interval, min_window, t_now) returns
\* a time in the future of t_now that is a multiple of loop_interval, and where
\* t_now lies within min_window before the next boundary it adds a further
\* loop_interval, so that the result is at least min_window after t_now.
C26_MinWindowKept ==
    (args.fn = "loop_time" /\ ret # NoReturn /\ args.min_window > 0) =>
        /\ ret.value > args.t_now
        /\ ret.value % args.loop_interval = 0
        /\ ret.value - args.t_now >= args.min_window

\* ---- C27 -------------------------------------------------------------------
\* A producer call in flight can return and enqueue at any time the loop is
\* free, however many items wait and whatever the consumers do.
PutNeverWaits == (LoopFree /\ prodPc = "produce") => ENABLED produce_return

\* Every enqueue makes the queue one longer and sends the Production Stage on
\* to ask for its next event.
EnqueueGrowsQueue ==
    Len(enqueued') > Len(enqueued) =>
        /\ Len(queue') = Len(queue) + 1
        /\ prodPc' = "loop_time"

\* While the consumer calls of an item have not all completed, nothing leaves
\* the queue.
StalledQueueKeeps ==
    (consPc = "gather" /\ ~GatherDone(cons_tasks)) => Len(queue') >= Len(queue)

\* C27: enqueueing never suspends the Production Stage (the queue is unbounded,
\* there is no backpressure): while a consumer call does not complete and the
\* ticks keep firing and the producer keeps succeeding, the producer is still
\* invoked for every subsequent event and the queue grows with every one of
\* them.
C27_NoBackpressure ==
    /\ []PutNeverWaits
    /\ [][EnqueueGrowsQueue]_vars
    /\ [][StalledQueueKeeps]_vars
    /\ [](Active => Len(queue) = Len(enqueued) - Len(dequeued))

\* the consumers still hold the first item while the third event is being
\* produced and the second waits in the queue
C27_Witness ==
    /\ Active
    /\ Len(dequeued) = 1
    /\ \E c \in Consumers : cons_tasks[c].st = "pending"
    /\ queue # <<>>
    /\ prodPc = "produce"
    /\ Len(emitted) = 3

\* ---- C28 -------------------------------------------------------------------
\* A consumer call ends only by its own return or raise: a step in which the
\* call of one consumer ends leaves the calls of the others as they are.
CallsEndOnTheirOwn ==
    \A c \in Consumers :
        (cons_tasks[c].st = "pending" /\ cons_tasks'[c].st # "pending"
           /\ Len(dequeued') = Len(dequeued)) =>
            /\ cons_tasks'[c].st \in {"done", "failed"}
            /\ \A o \in Consumers \ {c} : cons_tasks'[o] = cons_tasks[o]

\* After the Consumption Stage has ended on the failure of one call, a sibling
\* call still running can return and can raise while the loop runs.
SiblingsRunOn ==
    \A c \in Consumers :
        (LoopFree /\ consPc = "raised" /\ cons_tasks[c].st = "pending") =>
            /\ ENABLED consumer_return(c)
            /\ ENABLED consumer_raise(c)

\* C28: when one consumer raises for a queue item, the Consumption Stage does
\* not cancel the sibling consumer calls already started for that item: they
\* stay scheduled and may still run to completion or fail on their own after
\* the first failure.
C28_SiblingsNotCancelled ==
    /\ [][CallsEndOnTheirOwn]_vars
    /\ []SiblingsRunOn
    /\ [](\A c \in Consumers : cons_tasks[c].st # "cancelled")

\* the stage ended on the failure of consumer 1; consumer 2 ran on and failed
\* later, on its own
C28_Witness ==
    /\ consPc = "raised"
    /\ ex = Exception("consumer", 1)
    /\ cons_tasks[1].st = "failed"
    /\ cons_tasks[2].st = "failed"
    /\ Exception("consumer", 2) \in exceptions

\* ---- C29 -------------------------------------------------------------------
\* C29: an Event is never emitted early: it is handed to the Production Stage,
\* and the producer invoked for it, only once the wall clock has reached the
\* event's event_time.
C29_NeverEarly ==
    [][Len(emitted') > Len(emitted) => wall >= event.event_time]_vars

\* ---- C30 -------------------------------------------------------------------
\* g is the first grid tick after the time t.
FirstTickAfter(g, t) ==
    /\ g > t
    /\ g <= t + loop_interval
    /\ (g - loop_offset) % loop_interval = 0

\* The Event Sequence creates the Event it will emit.
EventCreated == Active /\ prodPc = "delta" /\ prodPc' = "sleep"

\* C30 as stated: when the Production Stage requests the next event at
\* wall-clock time t, the event emitted for that request has as its event_time
\* the first grid tick after t.
C30_FirstTickAfterRequest ==
    [][EventCreated => FirstTickAfter(event'.event_time, requested)]_vars

\* The tick is the first grid tick after the clock as loop_time reads it.
TickFromReading ==
    (Active /\ prodPc = "loop_time" /\ prodPc' = "delta") =>
        FirstTickAfter(t_event', wall)

\* The Event is created for the tick computed last, which the clock has not
\* passed, and with the next counter value; that tick is the first grid tick
\* after the time of the request unless that one was skipped.
EventForFutureTick ==
    EventCreated =>
        /\ event'.event_time = t_event
        /\ event'.event_time >= wall
        /\ event'.loop_counter = Len(emitted)
        /\ \/ FirstTickAfter(event'.event_time, requested)
           \/ \E s \in skipped : FirstTickAfter(s, requested)

\* The Event emitted is the Event created.
EmittedAsCreated ==
    Len(emitted') > Len(emitted) => emitted' = Append(emitted, event)

\* C30 amended: Events are only ever created for future ticks: the tick is the
\* first grid tick after the wall clock as the Event Sequence reads it when it
\* computes the tick, and the Event is created only if the clock has not
\* passed the tick.  That is the first grid tick after the time t of the
\* request unless the clock had passed that tick by the second reading: then
\* the tick is skipped and the Event is created for a tick computed after the
\* grace period.  Grid ticks that elapsed during the preceding producer call
\* or enqueue get no Event and use no loop_counter value.
C30_FutureTicksOnly ==
    /\ [][TickFromReading]_vars
    /\ [][EventForFutureTick]_vars
    /\ [][EmittedAsCreated]_vars
    /\ [](\A i \in 1..Len(emitted) : emitted[i].loop_counter = i - 1)

\* the tick after the last event was skipped on a clock step and the next
\* Event is created for a later tick, with the next counter value
C30_Witness ==
    /\ Active
    /\ prodPc = "sleep"
    /\ Len(emitted) >= 1
    /\ event.loop_counter = Len(emitted)
    /\ \E s \in skipped :
           /\ emitted[Len(emitted)].event_time < s
           /\ s < event.event_time

\* ---- C31 -------------------------------------------------------------------
\* No step takes stopped from true back to false.
StoppedStays == stopped => stopped'

\* The loop's clock advances by one unit.
TimePasses == wall' = wall + 1 /\ nadjust' = nadjust

\* The pipeline is launched with stopped as it finds it and the watchdog at
\* the beginning of its first sleep.
LaunchKeepsStopped ==
    (launcherPc = "ready" /\ launcherPc' = "gather") =>
        /\ stopped' = stopped
        /\ wdPc' = "sleep"
        /\ wdTimer' = WatchdogInterval

\* While stopped is set the watchdog does not begin another sleep: the sleep
\* it is in is its last, and the poll at the end of it raises.
StoppedPollRaises ==
    (Active /\ stopped /\ wdPc = "sleep") =>
        \/ wdPc' = "raised" /\ wdTimer = 0
        \/ wdPc' = "sleep" /\ wdTimer' = wdTimer
        \/ wdPc' = "sleep" /\ wdTimer' = wdTimer - 1 /\ TimePasses

\* While stopped is set no time passes on a running pipeline beyond the end
\* of that sleep.
StoppedEndsAtPoll ==
    (Active /\ stopped /\ TimePasses) => (wdPc = "sleep" /\ wdTimer > 0)

\* Once the watchdog has raised, the launcher is able to end the pipeline.
RaisedEndsPipeline ==
    (LoopFree /\ wdPc = "raised") => ENABLED launcher_finish

\* A pipeline started after stop() never gets beyond the first sleep of its
\* watchdog: the time it has run and the rest of that sleep add up to one
\* watchdog interval (the clock left alone; the pipeline is launched at 0).
FirstSleepOnly ==
    (stopped /\ stopAge = -1 /\ launcherPc \in {"gather", "done"} /\ nadjust = 0)
        => wall + wdTimer = WatchdogInterval

\* C31: stopped is monotonic: no operation (start(), the end of the pipeline,
\* any stage) resets it to false, so a stop() issued before start() is not
\* lost: the pipeline started afterwards finds stopped set, its watchdog raises
\* at its first poll and the pipeline ends there, if a failing stage has not
\* ended it before.
C31_StoppedMonotonic ==
    /\ [][StoppedStays]_vars
    /\ [][LaunchKeepsStopped]_vars
    /\ [][StoppedPollRaises]_vars
    /\ [][StoppedEndsAtPoll]_vars
    /\ []RaisedEndsPipeline
    /\ []FirstSleepOnly

\* stop() was called before start() and never after; the pipeline has run for
\* one sleep of the watchdog, with events emitted, and was ended by its poll
C31_Witness ==
    /\ stopped
    /\ stopAge = -1
    /\ callerPc = "started"
    /\ launcherPc = "done"
    /\ wdPc = "raised"
    /\ prodPc # "raised"
    /\ consPc # "raised"
    /\ nadjust = 0
    /\ wall = WatchdogInterval
    /\ Len(emitted) >= 2

\* ---- C32 -------------------------------------------------------------------
\* Every item taken from the queue has been handed to every consumer.
DeliveredToAll == \A c \in Consumers : ninvoked[c] = Len(dequeued)

\* The Consumption Stage has not ended over an item that has no payload.
NoneEndsNothing == consPc = "raised" => item.payload # NonePayload

\* C32 as stated: the HTTP producer never raises to the conveyor: a failed
\* request gives no payload (None), which is still enqueued and still handed
\* to every consumer, and polling goes on with the next tick: the pipeline
\* does not end over it.
C32_NoneKeepsPolling ==
    /\ prodPc # "raised"
    /\ Len(enqueued) = Len(emitted) - (IF prodPc = "produce" THEN 1 ELSE 0)
    /\ DeliveredToAll
    /\ NoneEndsNothing

\* ---- C33 -------------------------------------------------------------------
\* A call of publish has a call of start_client before it.
PublishAfterStart ==
    \A i \in 1..Len(calls) :
        calls[i].fn = "publish" =>
            \E j \in 1..(i - 1) : calls[j].fn = "start_client"

\* start_client is called once at most, for the event with loop_counter 0.
ClientForFirstEvent ==
    /\ Cardinality({i \in 1..Len(calls) : calls[i].fn = "start_client"}) <= 1
    /\ \A i \in 1..Len(calls) :
           calls[i].fn = "start_client" => calls[i].loop_counter = 0

\* The first item delivered is the event with loop_counter 0.
FirstEventFirst == dequeued # <<>> => dequeued[1].event.loop_counter = 0

\* publish is called on a client that start_client has connected.
PublishOnConnected ==
    (Len(calls') > Len(calls) /\ calls'[Len(calls')].fn = "publish") =>
        client.state = "connected"

\* C33: MqttConsumer has a connected client before it publishes: the client is
\* created only for an event with loop_counter < 1, the conveyor delivers the
\* event with loop_counter 0 first, and every publish of a run comes after the
\* start_client of that run.
C33_ClientBeforePublish ==
    /\ []PublishAfterStart
    /\ []ClientForFirstEvent
    /\ []FirstEventFirst
    /\ [][PublishOnConnected]_vars

\* no downsampling: the client made for event 0, then events 0 and 1 published
C33_Witness ==
    /\ args.fn = "amain"
    /\ args.mq_downsample = 1
    /\ calls = <<[fn |-> "start_client", loop_counter |-> 0],
                 [fn |-> "publish", loop_counter |-> 0],
                 [fn |-> "publish", loop_counter |-> 1]>>
    /\ client = [state |-> "connected", loop_counter |-> 0]
    /\ cons_tasks[MqttPlace].st = "done"

\* ---- C34 -------------------------------------------------------------------
\* With downsample 0 consume never returns and never publishes: its first
\* call, for the event with loop_counter 0, is its last.
ZeroDownsampleBails ==
    (args.fn = "amain" /\ args.mq_downsample = 0) =>
        /\ cons_tasks[MqttPlace].st # "done"
        /\ \A i \in 1..Len(calls) : calls[i].fn # "publish"
        /\ ninvoked[MqttPlace] <= 1
        /\ cons_tasks[MqttPlace].st = "failed" =>
               /\ cons_tasks[MqttPlace].event.loop_counter = 0
               /\ consPc = "raised"

\* C34: with downsample 0 consume raises on the first event it receives and
\* publishes nothing, and this failure of a consumer ends the conveyor:
\* running becomes false.
C34_ZeroDownsampleFatal ==
    /\ []ZeroDownsampleBails
    /\ (args.mq_downsample = 0 /\ Active /\ cons_tasks[MqttPlace].st = "failed")
           ~> (launcherPc = "done" /\ ~running)

\* downsample 0: the client was connected, the other consumer had returned,
\* consume raised on event 0 and the conveyor has ended
C34_Witness ==
    /\ args.fn = "amain"
    /\ args.mq_downsample = 0
    /\ client = [state |-> "connected", loop_counter |-> 0]
    /\ calls = <<[fn |-> "start_client", loop_counter |-> 0]>>
    /\ cons_tasks[1].st = "done"
    /\ cons_tasks[MqttPlace].st = "failed"
    /\ ex = Exception("consumer", MqttPlace)
    /\ launcherPc = "done"
    /\ ~running

\* ---- C35 -------------------------------------------------------------------
\* main has left its loop.
LoopLeft == mainPc \in {"exit", "raised"}

\* C35 as stated: in the legacy poller's loop, once a SIGNAL message has been
\* dequeued the pending scheduled poll is cancelled, no further poll is
\* scheduled, and the loop eventually terminates instead of waiting for ever
\* on the result queue.
C35_SignalEndsLoop ==
    /\ [](drain => task_next.st # "scheduled")
    /\ [][drain => scheduled' = scheduled]_vars
    /\ drain ~> LoopLeft

\* ---- C36 -------------------------------------------------------------------
\* A run of device_reader that begins finds on input_queue the one entry
\* pushed when it was scheduled, and takes it.
ReaderTakesOwnEntry ==
    (task_next.st = "scheduled" /\ task_next'.st \notin {"scheduled", "cancelled"}) =>
        /\ input_queue = <<TimeEntry(task_next.when)>>
        /\ input_queue' = <<>>
        /\ task_next'.st = "running"
        /\ task_next'.dargs = TimeEntry(task_next.when)

\* A record inserted carries the time its own poll was scheduled for.
RecordHasOwnTime ==
    \A i \in 1..Len(inserted) :
        /\ inserted[i].poll \in 1..Len(scheduled)
        /\ inserted[i].paii_time.t = scheduled[inserted[i].poll].t
        /\ inserted[i].paii_time.tzinfo = "utc"

\* C36: in the legacy poller input_queue never holds more than one entry and
\* each run of device_reader consumes the timestamp entry pushed when that run
\* was scheduled, so every DATA record stored carries the scheduled time of
\* its own poll.
C36_OwnTimestamp ==
    /\ [](Len(input_queue) <= 1)
    /\ [](task_next.st # "QueueEmpty")
    /\ [][ReaderTakesOwnEntry]_vars
    /\ []RecordHasOwnTime

\* three polls at three times, each record with the time of its own poll,
\* and the entry of a fourth run waiting on input_queue
C36_Witness ==
    /\ args.fn = "main"
    /\ Len(inserted) = 3
    /\ \A i \in 1..3 : inserted[i].poll = i
    /\ inserted[1].paii_time.t < inserted[2].paii_time.t
    /\ inserted[2].paii_time.t < inserted[3].paii_time.t
    /\ Len(input_queue) = 1

====
